---- MODULE Spec2Model ----
(***************************************************************************)
(* Model of the resilience core of Look-Up-and-Fill:                       *)
(*   - the token-bucket admission controller (middleware/rate_limit.py),   *)
(*   - the retry wrapper (utils.py),                                       *)
(*   - the enrichment pipeline (services/document_processing_service.py)   *)
(*     with the cache it consults (services/cache_service.py).             *)
(*                                                                         *)
(* Token counts are kept in units of 1/Scale token so that the float       *)
(* arithmetic tokens + elapsed * (requests_per_minute / 60.0) is exact on  *)
(* whole seconds: the field "tokens" holds Scale * tokens and the field    *)
(* "refill_rate" holds Scale * refill_rate (tokens per second).            *)
(***************************************************************************)
EXTENDS Integers, Sequences, FiniteSets, TLC

\* ------------------------------------------------------------------------
\* Program constants
\* ------------------------------------------------------------------------
BUCKET_CLEANUP_FREQ == 3600
Scale == 60
MAX_RETRIES == 3
CONCURRENCY_LIMIT == 5

\* ------------------------------------------------------------------------
\* Bounds of the model
\* ------------------------------------------------------------------------
\* requests_per_minute given to RateLimitMiddleware.__init__ ranges over 1..MaxRequestsPerMinute
MaxRequestsPerMinute == 2
\* length in seconds of a short step of the clock
TickSeconds == 30
\* short steps are taken while the time since the last whole cleanup period stays within MaxDrift
MaxDrift == 30
\* the clock stops at MaxClock
MaxClock == 3630

Procs == {"p1", "p2"}
IPs == {"a", "b"}
\* the client keys whose requests Spec explores
Clients == {"a"}
\* the calls of lookup_missing_data that may run at the same time
Batches == {"A", "B"}

\* a call of lookup_missing_data that has not begun
IdleBatch(data) ==
    [state |-> "idle", data |-> data, enriched_count |-> 0, cache_hits |-> 0,
     result |-> <<>>, outOfOrder |-> FALSE]

Min(x, y) == IF x <= y THEN x ELSE y

VARIABLES
    now,            \* time.time(), in seconds
    rpm,            \* RateLimitMiddleware.requests_per_minute
    buckets,        \* RateLimitMiddleware.buckets of every process
    cleanup_task,   \* RateLimitMiddleware.cleanup_task of every process
    redis,          \* the keys rate_limit:{ip} of the durable store
    redisUp,        \* whether the durable store answers
    lastCall,       \* what the most recent __call__ did
    burst,          \* admissions of a bucket since its fresh creation, at the instant of creation
    resetMark,      \* per client: the reset not yet followed by an admission check
    spent           \* per process and client: the admissions of the present instant

VARIABLES
    provider,       \* how the lookup provider behaves: "any" or "healthy"
    cache,          \* company_cache with its keys in the store
    batches,        \* the calls of lookup_missing_data
    tasks,          \* the row tasks process(row) of every call
    semaphore,      \* the value of the semaphore of every call
    lastOp          \* what the most recent operation on company_cache did

VARIABLES
    applied         \* a function taken on its own: its arguments and, once applied, its result

VARIABLES
    test_cache      \* description_to_symbol and bk_tree of the second instance, test_cache

enVars == <<provider, cache, batches, tasks, semaphore, lastOp, applied, test_cache>>

rlVars ==
    <<now, rpm, buckets, cleanup_task, redis, redisUp, lastCall, burst, resetMark, spent>>

vars == <<rlVars, enVars>>

\* ------------------------------------------------------------------------
\* TokenBucket
\* ------------------------------------------------------------------------
\* TokenBucket.__init__
TokenBucket(capacity, refill_rate, t) ==
    [capacity |-> capacity, tokens |-> capacity * Scale,
     refill_rate |-> refill_rate, last_refill |-> t]

\* _refill without the cap at capacity
RefillUncapped(b, t) ==
    [b EXCEPT !.tokens = b.tokens + (t - b.last_refill) * b.refill_rate,
              !.last_refill = t]

\* TokenBucket._refill
Refill(b, t) ==
    [b EXCEPT !.tokens = Min(b.capacity * Scale,
                             b.tokens + (t - b.last_refill) * b.refill_rate),
              !.last_refill = t]

\* consume that wants more than the cost to be left
ConsumeStrict(b, cost, t) ==
    LET r == Refill(b, t) IN
    IF r.tokens > cost * Scale
    THEN [bucket |-> [r EXCEPT !.tokens = r.tokens - cost * Scale], ok |-> TRUE]
    ELSE [bucket |-> r, ok |-> FALSE]

\* consume that admits and leaves the token in the bucket
ConsumeKeepsToken(b, cost, t) ==
    LET r == Refill(b, t) IN
    IF r.tokens >= cost * Scale
    THEN [bucket |-> r, ok |-> TRUE]
    ELSE [bucket |-> r, ok |-> FALSE]

\* TokenBucket.consume: the bucket afterwards and the value returned
Consume(b, cost, t) ==
    LET r == Refill(b, t) IN
    IF r.tokens >= cost * Scale
    THEN [bucket |-> [r EXCEPT !.tokens = r.tokens - cost * Scale], ok |-> TRUE]
    ELSE [bucket |-> r, ok |-> FALSE]

\* ------------------------------------------------------------------------
\* Dictionaries (dict of the process, keys of the store)
\* ------------------------------------------------------------------------
EmptyMap == [k \in {} |-> 0]
Put(f, k, v) == [x \in (DOMAIN f) \cup {k} |-> IF x = k THEN v ELSE f[x]]
Del(f, K) == [x \in (DOMAIN f) \ K |-> f[x]]

\* ------------------------------------------------------------------------
\* RateLimitMiddleware
\* ------------------------------------------------------------------------
DeniedDetail == "Rate limit exceeded. Please try again later."

NoCall ==
    [kind |-> "none", proc |-> "-", ip |-> "-", status |-> 0, detail |-> "",
     called |-> 0, source |-> "-", start |-> 0, avail |-> 0, memHad |-> FALSE,
     storeHad |-> FALSE, storeTokens |-> 0, storeUp |-> FALSE, afterReset |-> "-",
     raised |-> FALSE]

\* redis_client.get(f"rate_limit:{ip}") answers with a value
StoreHas(ip) == redisUp /\ ip \in DOMAIN redis

\* _get_or_create_bucket that never looks into the store
GetOrCreateBucketNoStore(p, ip) ==
    IF ip \in DOMAIN buckets[p]
    THEN [bucket |-> buckets[p][ip], source |-> "memory"]
    ELSE [bucket |-> TokenBucket(rpm, (rpm * Scale) \div 60, now),
          source |-> "fresh"]

\* RateLimitMiddleware._get_or_create_bucket: the bucket and where it came from
GetOrCreateBucket(p, ip) ==
    IF ip \in DOMAIN buckets[p]
    THEN [bucket |-> buckets[p][ip], source |-> "memory"]
    ELSE IF StoreHas(ip)
    THEN LET data == redis[ip].data IN
         [bucket |-> [TokenBucket(data.capacity, data.refill_rate, now)
                        EXCEPT !.tokens = data.tokens,
                               !.last_refill = data.last_refill],
          source |-> "store"]
    ELSE [bucket |-> TokenBucket(rpm, (rpm * Scale) \div 60, now),
          source |-> "fresh"]

\* _save_bucket that writes only for an admitted request
SaveBucketIfSpent(ip, b) ==
    [raised |-> FALSE,
     store |-> IF redisUp /\ b.tokens < b.capacity * Scale /\ b.tokens % Scale = 0
               THEN Put(redis, ip, [data |-> b, expires |-> now + BUCKET_CLEANUP_FREQ])
               ELSE redis]

\* _save_bucket without its try: the error of setex reaches __call__
SaveBucketUnguarded(ip, b) ==
    IF redisUp
    THEN [raised |-> FALSE,
          store |-> Put(redis, ip, [data |-> b, expires |-> now + BUCKET_CLEANUP_FREQ])]
    ELSE [raised |-> TRUE, store |-> redis]

\* RateLimitMiddleware._save_bucket: the store afterwards, and whether an
\* exception leaves the method (the except block logs the error of setex)
SaveBucket(ip, b) ==
    IF redisUp
    THEN [raised |-> FALSE,
          store |-> Put(redis, ip, [data |-> b, expires |-> now + BUCKET_CLEANUP_FREQ])]
    ELSE [raised |-> FALSE, store |-> redis]

\* a _schedule_cleanup that creates a task whatever the state of the previous one
ScheduleCleanupAlways(task) == [state |-> "pending", wake |-> now + BUCKET_CLEANUP_FREQ]

\* RateLimitMiddleware._schedule_cleanup: the cleanup task afterwards
ScheduleCleanup(task) ==
    IF task.state \in {"none", "done"}
    THEN [state |-> "pending", wake |-> now + BUCKET_CLEANUP_FREQ]
    ELSE task

NoTask == [state |-> "none", wake |-> 0]

\* the admissions counted for a bucket created fresh, while no time has elapsed
BurstAfter(p, ip, source, ok) ==
    IF source = "fresh" THEN (IF ok THEN 1 ELSE 0)
    ELSE IF source = "memory" /\ burst[p][ip] # -1
    THEN burst[p][ip] + (IF ok THEN 1 ELSE 0)
    ELSE -1

Void == [p \in Procs |-> [ip \in IPs |-> -1]]

\* no request of the client has been served by the process at the present instant;
\* otherwise n requests were admitted and the first one found "first" after its refill
NotServed == [n |-> 0, first |-> -1]

\* two requests of the client load the same bucket before either writes it back:
\* both are admitted on the token one of them takes
CallInterleaved(p, ip) ==
    LET g == GetOrCreateBucket(p, ip)
        c == Consume(g.bucket, 1, now)
    IN
    /\ buckets' = [buckets EXCEPT ![p] = Put(@, ip, c.bucket)]
    /\ redis' = SaveBucket(ip, c.bucket).store
    /\ burst' = [burst EXCEPT ![p][ip] = -1]
    /\ resetMark' = [resetMark EXCEPT ![ip] = "-"]
    /\ spent' = [spent EXCEPT ![p][ip] =
                    [n |-> @.n + (IF c.ok THEN 2 ELSE 0),
                     first |-> IF @.first = -1 THEN Refill(g.bucket, now).tokens
                               ELSE @.first]]
    /\ cleanup_task' = [cleanup_task EXCEPT ![p] = IF c.ok THEN ScheduleCleanup(@) ELSE @]
    /\ lastCall' = [NoCall EXCEPT !.kind = "public", !.proc = p, !.ip = ip,
                                  !.status = IF c.ok THEN 200 ELSE 429,
                                  !.called = IF c.ok THEN 2 ELSE 0]
    /\ UNCHANGED <<now, rpm, redisUp, enVars>>

\* RateLimitMiddleware.__call__ on a path without "_private"
Call(p, ip) ==
    LET g == GetOrCreateBucket(p, ip)
        c == Consume(g.bucket, 1, now)
        seen == [NoCall EXCEPT !.kind = "public", !.proc = p, !.ip = ip,
                     !.source = g.source, !.start = g.bucket.tokens,
                     !.avail = Refill(g.bucket, now).tokens,
                     !.memHad = (ip \in DOMAIN buckets[p]),
                     !.storeHad = StoreHas(ip),
                     !.storeTokens = IF StoreHas(ip) THEN redis[ip].data.tokens ELSE 0,
                     !.storeUp = redisUp,
                     !.afterReset = resetMark[ip]]
        saved == SaveBucket(ip, c.bucket)
    IN
    /\ buckets' = [buckets EXCEPT ![p] = Put(@, ip, c.bucket)]
    /\ redis' = saved.store
    /\ burst' = [burst EXCEPT ![p][ip] = BurstAfter(p, ip, g.source, c.ok)]
    /\ resetMark' = [resetMark EXCEPT ![ip] = "-"]
    /\ spent' = [spent EXCEPT ![p][ip] =
                    [n |-> @.n + (IF c.ok THEN 1 ELSE 0),
                     first |-> IF @.first = -1 THEN Refill(g.bucket, now).tokens
                               ELSE @.first]]
    /\ IF saved.raised
       THEN \* neither the denial nor the application is reached: the server
            \* answers the exception with status 500
            /\ lastCall' = [seen EXCEPT !.status = 500, !.called = 0, !.raised = TRUE]
            /\ UNCHANGED cleanup_task
       ELSE IF ~c.ok
       THEN /\ lastCall' = [seen EXCEPT !.status = 429, !.detail = DeniedDetail,
                                        !.called = 0]
            /\ UNCHANGED cleanup_task
       ELSE /\ cleanup_task' = [cleanup_task EXCEPT ![p] = ScheduleCleanup(@)]
            /\ lastCall' = [seen EXCEPT !.status = 200, !.called = 1]
    /\ UNCHANGED <<now, rpm, redisUp, enVars>>

\* reset_rate_limits that forgets the in-memory map
ResetStoreOnly(p, ip) ==
    /\ buckets' = buckets
    /\ redis' = IF redisUp THEN Del(redis, {ip}) ELSE redis

\* RateLimitMiddleware.reset_rate_limits
ResetRateLimits(p, ip) ==
    /\ buckets' = [buckets EXCEPT ![p] = Del(@, {ip})]
    /\ redis' = IF redisUp THEN Del(redis, {ip}) ELSE redis

\* what __call__ finds for the client when a request to a "_private" path arrives
SeenPrivate(p, ip) ==
    [NoCall EXCEPT !.kind = "private", !.proc = p, !.ip = ip, !.storeUp = redisUp,
                   !.memHad = (ip \in DOMAIN buckets[p]),
                   !.avail = Refill(GetOrCreateBucket(p, ip).bucket, now).tokens]

\* __call__ without the whitelist: the reset request goes through the admission check
CallPrivateLimited(p, ip) ==
    LET c == Consume(GetOrCreateBucket(p, ip).bucket, 1, now) IN
    /\ IF c.ok
       THEN /\ ResetRateLimits(p, ip)
            /\ lastCall' = [SeenPrivate(p, ip) EXCEPT !.status = 200, !.called = 1]
       ELSE /\ buckets' = [buckets EXCEPT ![p] = Put(@, ip, c.bucket)]
            /\ redis' = SaveBucket(ip, c.bucket).store
            /\ lastCall' = [SeenPrivate(p, ip) EXCEPT !.status = 429,
                                                      !.detail = DeniedDetail]
    /\ burst' = [burst EXCEPT ![p][ip] = -1]
    /\ resetMark' = [resetMark EXCEPT ![ip] = IF redisUp THEN p ELSE "failed"]
    /\ spent' = [spent EXCEPT ![p][ip] = NotServed]
    /\ UNCHANGED <<now, rpm, cleanup_task, redisUp, enVars>>

\* RateLimitMiddleware.__call__ on /_private/rl/reset, served by clear_rate_limits
CallPrivate(p, ip) ==
    /\ ResetRateLimits(p, ip)
    /\ burst' = [burst EXCEPT ![p][ip] = -1]
    /\ resetMark' = [resetMark EXCEPT ![ip] = IF redisUp THEN p ELSE "failed"]
    /\ spent' = [spent EXCEPT ![p][ip] = NotServed]
    /\ lastCall' = [SeenPrivate(p, ip) EXCEPT !.status = 200, !.called = 1]
    /\ UNCHANGED <<now, rpm, cleanup_task, redisUp, enVars>>

\* RateLimitMiddleware._cleanup_old_buckets, when its sleep has elapsed
Expired(p) == {ip \in DOMAIN buckets[p] : now - buckets[p][ip].last_refill > BUCKET_CLEANUP_FREQ}

Cleanup(p) ==
    /\ cleanup_task[p].state = "pending"
    /\ now > cleanup_task[p].wake
    /\ buckets' = [buckets EXCEPT ![p] = Del(@, Expired(p))]
    /\ redis' = IF redisUp THEN EmptyMap ELSE redis
    /\ cleanup_task' = [cleanup_task EXCEPT ![p] = [state |-> "done", wake |-> 0]]
    /\ burst' = [burst EXCEPT ![p] = [ip \in IPs |-> IF ip \in Expired(p) THEN -1 ELSE @[ip]]]
    /\ lastCall' = NoCall
    /\ UNCHANGED <<now, rpm, redisUp, resetMark, spent, enVars>>

\* the clock advances by d seconds; keys whose TTL has run out leave the store
Tick(d) ==
    /\ now' = now + d
    /\ redis' = Del(redis, {ip \in DOMAIN redis : redis[ip].expires <= now + d})
    /\ burst' = Void
    /\ spent' = [p \in Procs |-> [ip \in IPs |-> NotServed]]
    /\ lastCall' = NoCall
    /\ UNCHANGED <<rpm, buckets, cleanup_task, redisUp, resetMark, enVars>>

ShortTick ==
    /\ (now % BUCKET_CLEANUP_FREQ) + TickSeconds <= MaxDrift
    /\ now + TickSeconds <= MaxClock
    /\ Tick(TickSeconds)

LongTick ==
    /\ now + BUCKET_CLEANUP_FREQ <= MaxClock
    /\ Tick(BUCKET_CLEANUP_FREQ)

\* the durable store stops or resumes answering
RedisToggle ==
    /\ redisUp' = ~redisUp
    /\ lastCall' = NoCall
    /\ UNCHANGED <<now, rpm, buckets, cleanup_task, redis, burst, resetMark, spent, enVars>>

\* a process is started again: RateLimitMiddleware.__init__
Restart(p) ==
    /\ buckets' = [buckets EXCEPT ![p] = EmptyMap]
    /\ cleanup_task' = [cleanup_task EXCEPT ![p] = NoTask]
    /\ burst' = [burst EXCEPT ![p] = [ip \in IPs |-> -1]]
    /\ spent' = [spent EXCEPT ![p] = [ip \in IPs |-> NotServed]]
    /\ lastCall' = NoCall
    /\ UNCHANGED <<now, rpm, redis, redisUp, resetMark, enVars>>


\* ------------------------------------------------------------------------
\* Strings: a str is a sequence of one-character strings
\* ------------------------------------------------------------------------
LowerOf == [c \in {"A", "B", "C", "X"} |->
              CASE c = "A" -> "a" [] c = "B" -> "b" [] c = "C" -> "c" [] c = "X" -> "x"]
UpperOf == [c \in {"a", "b", "c", "x"} |->
              CASE c = "a" -> "A" [] c = "b" -> "B" [] c = "c" -> "C" [] c = "x" -> "X"]

\* str.lower
Lower(s) == [i \in 1..Len(s) |-> IF s[i] \in DOMAIN LowerOf THEN LowerOf[s[i]] ELSE s[i]]

\* str.upper
Upper(s) == [i \in 1..Len(s) |-> IF s[i] \in DOMAIN UpperOf THEN UpperOf[s[i]] ELSE s[i]]

\* str.isupper: some cased character, and no lower-case one
IsUpper(s) ==
    /\ \E i \in 1..Len(s) : s[i] \in DOMAIN LowerOf
    /\ \A i \in 1..Len(s) : s[i] \notin DOMAIN UpperOf

\* str.strip
Strip(s) ==
    LET keep == {i \in 1..Len(s) : s[i] # " "} IN
    IF keep = {} THEN <<>>
    ELSE LET lo == CHOOSE i \in keep : \A j \in keep : i <= j
             hi == CHOOSE i \in keep : \A j \in keep : j <= i
         IN SubSeq(s, lo, hi)

\* str.replace(".", " ")
ReplaceDots(s) == [i \in 1..Len(s) |-> IF s[i] = "." THEN " " ELSE s[i]]

\* str.split(): the words between runs of spaces
RECURSIVE SplitFrom(_, _, _, _)
SplitFrom(s, i, word, words) ==
    IF i > Len(s)
    THEN (IF word = <<>> THEN words ELSE Append(words, word))
    ELSE IF s[i] = " "
    THEN SplitFrom(s, i + 1, <<>>, IF word = <<>> THEN words ELSE Append(words, word))
    ELSE SplitFrom(s, i + 1, Append(word, s[i]), words)

Split(s) == SplitFrom(s, 1, <<>>, <<>>)

\* " ".join(words)
RECURSIVE Join(_)
Join(words) ==
    IF words = <<>> THEN <<>>
    ELSE IF Len(words) = 1 THEN words[1]
    ELSE words[1] \o <<" ">> \o Join(Tail(words))

Min4(a, b, c, d) == Min(Min(a, b), Min(c, d))

\* the inner loop without the transposition term (plain Levenshtein)
RECURSIVE LevColsPlain(_, _, _, _, _, _, _)
LevColsPlain(s1, s2, i, j, H, h, db) ==
    IF j > Len(s2) THEN H
    ELSE LET cost == IF s1[i] = s2[j] THEN 0 ELSE 1
             v == Min(Min(H[i][j] + cost, H[i + 1][j] + 1), H[i][j + 1] + 1)
         IN LevColsPlain(s1, s2, i, j + 1, [H EXCEPT ![i + 1][j + 1] = v], h, db)

\* the inner loop with a deletion that costs 2
RECURSIVE LevColsDearDeletion(_, _, _, _, _, _, _)
LevColsDearDeletion(s1, s2, i, j, H, h, db) ==
    IF j > Len(s2) THEN H
    ELSE LET k == h[s2[j]]
             l == db
             same == (s1[i] = s2[j])
             cost == IF same THEN 0 ELSE 1
             v == Min4(H[i][j] + cost,
                       H[i + 1][j] + 1,
                       H[i][j + 1] + 2,
                       H[k][l] + (i - k - 1) + 1 + (j - l - 1))
         IN LevColsDearDeletion(s1, s2, i, j + 1, [H EXCEPT ![i + 1][j + 1] = v], h,
                                IF same THEN j ELSE db)

\* the inner loop with the transposition of two adjacent characters only, each
\* character edited at most once (optimal string alignment)
RECURSIVE LevColsAdjacentOnly(_, _, _, _, _, _, _)
LevColsAdjacentOnly(s1, s2, i, j, H, h, db) ==
    IF j > Len(s2) THEN H
    ELSE LET cost == IF s1[i] = s2[j] THEN 0 ELSE 1
             swap == IF i > 1 /\ j > 1 /\ s1[i] = s2[j - 1] /\ s1[i - 1] = s2[j]
                     THEN H[i - 1][j - 1] + 1
                     ELSE Len(s1) + Len(s2)
             v == Min4(H[i][j] + cost, H[i + 1][j] + 1, H[i][j + 1] + 1, swap)
         IN LevColsAdjacentOnly(s1, s2, i, j + 1, [H EXCEPT ![i + 1][j + 1] = v], h, db)

\* levenshtein_distance: the inner loop over j of row i
RECURSIVE LevCols(_, _, _, _, _, _, _)
LevCols(s1, s2, i, j, H, h, db) ==
    IF j > Len(s2) THEN H
    ELSE LET k == h[s2[j]]
             l == db
             same == (s1[i] = s2[j])
             cost == IF same THEN 0 ELSE 1
             v == Min4(H[i][j] + cost,
                       H[i + 1][j] + 1,
                       H[i][j + 1] + 1,
                       H[k][l] + (i - k - 1) + 1 + (j - l - 1))
         IN LevCols(s1, s2, i, j + 1, [H EXCEPT ![i + 1][j + 1] = v], h,
                    IF same THEN j ELSE db)

\* levenshtein_distance: the outer loop over i
RECURSIVE LevRows(_, _, _, _, _)
LevRows(s1, s2, i, H, h) ==
    IF i > Len(s1) THEN H[Len(s1) + 1][Len(s2) + 1]
    ELSE LevRows(s1, s2, i + 1, LevCols(s1, s2, i, 1, H, h, 0),
                 [h EXCEPT ![s1[i]] = i])

\* levenshtein_distance (Damerau-Levenshtein)
levenshtein_distance(s1, s2) ==
    LET len1 == Len(s1)
        len2 == Len(s2)
        maxdist == len1 + len2
        chars == {s1[i] : i \in 1..len1} \cup {s2[j] : j \in 1..len2}
        h0 == [c \in chars |-> 0]
        H0 == [i \in 0..(len1 + 1) |-> [j \in 0..(len2 + 1) |->
                 IF i = 0 \/ j = 0 THEN maxdist
                 ELSE IF j = 1 THEN i - 1
                 ELSE IF i = 1 THEN j - 1
                 ELSE maxdist]]
    IN LevRows(s1, s2, 1, H0, h0)

\* ------------------------------------------------------------------------
\* BKTree
\* ------------------------------------------------------------------------
\* The Metric Index (BKTree of the library pybktree, built by _rebuild_bk_tree).
\* A tree is a function from the path of a node, the sequence of the edge
\* distances from the root, to the item of the node; the empty tree is EmptyMap.
\* insert(item): descend along the child at the distance of item to the node
\* until there is none, and attach item there
RECURSIVE BkAddAt(_, _, _)
BkAddAt(tree, path, item) ==
    LET child == Append(path, levenshtein_distance(item, tree[path])) IN
    IF child \in DOMAIN tree THEN BkAddAt(tree, child, item)
    ELSE Put(tree, child, item)

BkAdd(tree, item) ==
    IF tree = EmptyMap THEN Put(tree, <<>>, item) ELSE BkAddAt(tree, <<>>, item)

\* _rebuild_bk_tree: the keys are added in the order of the dict
RECURSIVE BkBuild(_, _, _)
BkBuild(tree, keys, i) ==
    IF i > Len(keys) THEN tree ELSE BkBuild(BkAdd(tree, keys[i]), keys, i + 1)

\* query(target, radius) from the node at path: the pairs (d, item) emitted
RECURSIVE BkQueryAt(_, _, _, _)
BkQueryAt(tree, path, target, radius) ==
    LET d == levenshtein_distance(target, tree[path])
        children == {q \in DOMAIN tree :
                       /\ Len(q) = Len(path) + 1
                       /\ SubSeq(q, 1, Len(path)) = path
                       /\ q[Len(q)] - d <= radius /\ d - q[Len(q)] <= radius}
    IN (IF d <= radius THEN {<<d, tree[path]>>} ELSE {})
       \cup UNION {BkQueryAt(tree, q, target, radius) : q \in children}

BkQuery(tree, target, radius) ==
    IF tree = EmptyMap THEN {} ELSE BkQueryAt(tree, <<>>, target, radius)

\* ------------------------------------------------------------------------
\* Rows and values
\* ------------------------------------------------------------------------
\* Python None, and the value of row.get(key) for a key the row does not have
None == <<"<none>">>
\* a value that is not a str (a number read from the uploaded file)
NonStr == <<"<number>">>
\* a mark the row does not carry
NoMark == "<absent>"

\* "not value" of Python for None, "" and a str
Falsy(v) == v = None \/ v = <<>>

IsStr(v) == v # None /\ v # NonStr

\* a row with its name and symbol and none of the marks
Row(name, symbol) ==
    [name |-> name, symbol |-> symbol, isEnriched |-> NoMark,
     lookupStatus |-> NoMark, failureReason |-> NoMark, cache_hit |-> NoMark]

\* the condition of process_single and of lookup_missing_data for a row to need a lookup
Missing(row) == Falsy(row.symbol) \/ Falsy(row.name)

\* is_valid
is_valid(text) == Len(text) < 10 /\ IsUpper(text)

\* ------------------------------------------------------------------------
\* Cache (company_cache); a cache is the record
\*   [name_results, symbol_name : the keys of the store,
\*    description_to_symbol, bk_tree : the fields of the Cache object]
\* ------------------------------------------------------------------------
DIST_THRESH == 3
CACHE_TTL == 300

\* the key bk_tree_descriptions is not in the store
NoBlob == [present |-> FALSE, data |-> EmptyMap, expires |-> 0]

\* Cache.__init__ on an empty store. The keys name_results:*, symbol_name:* and
\* bk_tree_descriptions (blob) are in the store, each until its time in expires;
\* description_to_symbol and bk_tree are in the memory of the process.
EmptyCache ==
    [name_results |-> EmptyMap, symbol_name |-> EmptyMap,
     description_to_symbol |-> EmptyMap, bk_tree |-> {},
     expires |-> [name_results |-> EmptyMap, symbol_name |-> EmptyMap],
     blob |-> NoBlob]

\* description_to_symbol and bk_tree of a Cache that has loaded nothing
NoIndex == [description_to_symbol |-> EmptyMap, bk_tree |-> {}]

\* BKTree.find(target, n): the items of the tree within distance n of target
BkFind(tree, target, n) == {d \in tree : levenshtein_distance(target, d) <= n}

\* a get_symbol_from_name that asks the index and does not read the entry of the name
CacheGetSymbolIndexOnly(c, name) ==
    LET normalized_name == Strip(Lower(name))
        matches == BkFind(c.bk_tree, normalized_name, DIST_THRESH)
        best == {d \in matches : \A e \in matches :
                    levenshtein_distance(normalized_name, d)
                        <= levenshtein_distance(normalized_name, e)}
    IN
    IF DOMAIN c.description_to_symbol = {} \/ matches = {}
    THEN {[value |-> None, cache |-> c]}
    ELSE {[value |-> c.description_to_symbol[d],
           cache |-> [c EXCEPT !.name_results =
                        Put(@, normalized_name,
                            <<[symbol |-> c.description_to_symbol[d],
                               description |-> d]>>),
                               !.expires.name_results =
                        Put(@, normalized_name, now + CACHE_TTL)]]
          : d \in best}

\* Cache.get_symbol_from_name: the outcomes value, cache afterwards
\* that are possible (one for each closest description of the index)
CacheGetSymbol(c, name) ==
    LET normalized_name == Strip(Lower(name))
        exact == IF normalized_name \in DOMAIN c.name_results
                 THEN c.name_results[normalized_name] ELSE <<>>
        matches == BkFind(c.bk_tree, normalized_name, DIST_THRESH)
        best == {d \in matches : \A e \in matches :
                    levenshtein_distance(normalized_name, d)
                        <= levenshtein_distance(normalized_name, e)}
    IN
    IF exact # <<>>
    THEN {[value |-> exact[1].symbol, cache |-> c]}
    ELSE IF DOMAIN c.description_to_symbol = {} \/ matches = {}
    THEN {[value |-> None, cache |-> c]}
    ELSE {IF d \notin DOMAIN c.description_to_symbol
             \/ Falsy(c.description_to_symbol[d])
          THEN [value |-> None, cache |-> c]
          ELSE [value |-> c.description_to_symbol[d],
                cache |-> [c EXCEPT !.name_results =
                             Put(@, normalized_name,
                                 <<[symbol |-> c.description_to_symbol[d],
                                    description |-> d]>>),
                                    !.expires.name_results =
                             Put(@, normalized_name, now + CACHE_TTL)]]
          : d \in best}

\* a get_name_from_symbol that turns to the index of descriptions on a miss
CacheGetNameFuzzy(c, symbol) ==
    LET normalized_symbol == Strip(Upper(symbol))
        matches == BkFind(c.bk_tree, Lower(normalized_symbol), DIST_THRESH)
    IN IF normalized_symbol \in DOMAIN c.symbol_name
          /\ c.symbol_name[normalized_symbol] # <<>>
       THEN c.symbol_name[normalized_symbol]
       ELSE IF matches # {} THEN CHOOSE d \in matches : TRUE
       ELSE None

\* Cache.get_name_from_symbol
CacheGetName(c, symbol) ==
    LET normalized_symbol == Strip(Upper(symbol)) IN
    IF normalized_symbol \in DOMAIN c.symbol_name
       /\ c.symbol_name[normalized_symbol] # <<>>
    THEN c.symbol_name[normalized_symbol]
    ELSE None

\* Cache.set_symbol_to_name
CacheSetSymbolToName(c, symbol, name) ==
    [c EXCEPT !.symbol_name = Put(@, Strip(Upper(symbol)), name),
              !.expires.symbol_name = Put(@, Strip(Upper(symbol)), now + CACHE_TTL)]

\* the loop of Cache.set_name_to_symbols stops at a result whose description is
\* not a string: .lower() raises there, inside the try block of the method
FoldRaises(results) == \E i \in 1..Len(results) : ~IsStr(results[i].description)

\* the loop of Cache.set_name_to_symbols over the search results
RECURSIVE FoldDescriptions(_, _, _)
FoldDescriptions(map, results, i) ==
    IF i > Len(results) THEN map
    ELSE IF ~IsStr(results[i].description) THEN map
    ELSE LET description == Strip(Lower(results[i].description))
             symbol == results[i].symbol
         IN FoldDescriptions(
                IF description # <<>> /\ symbol # <<>>
                THEN Put(map, description, symbol) ELSE map,
                results, i + 1)

\* Cache._rebuild_bk_tree
RebuildBkTree(c) == [c EXCEPT !.bk_tree = DOMAIN c.description_to_symbol]

\* Cache._save_bk_tree_data
SaveBkTreeData(c) ==
    [c EXCEPT !.blob = [present |-> TRUE, data |-> c.description_to_symbol,
                        expires |-> now + CACHE_TTL]]

\* a set_name_to_symbols that writes nothing
CacheSetSkipped(c, name, search_results) == c

\* Cache.set_name_to_symbols
CacheSetNameToSymbols(c, name, search_results) ==
    LET folded ==
            [c EXCEPT !.name_results = Put(@, Strip(Lower(name)), search_results),
                      !.expires.name_results =
                          Put(@, Strip(Lower(name)), now + CACHE_TTL),
                      !.description_to_symbol = FoldDescriptions(@, search_results, 1)]
    IN IF FoldRaises(search_results) THEN folded
       ELSE SaveBkTreeData(RebuildBkTree(folded))

\* a clear_cache that deletes the keys of the store and keeps the index
ClearStoreOnly(c) ==
    [c EXCEPT !.name_results = EmptyMap, !.symbol_name = EmptyMap,
              !.expires = [name_results |-> EmptyMap, symbol_name |-> EmptyMap],
              !.blob = NoBlob]

\* Cache.clear_cache
ClearCache(c) ==
    RebuildBkTree(
        [c EXCEPT !.name_results = EmptyMap, !.symbol_name = EmptyMap,
                  !.expires = [name_results |-> EmptyMap, symbol_name |-> EmptyMap],
                  !.blob = NoBlob,
                  !.description_to_symbol = EmptyMap])

\* Cache.get_cache_stats
CacheStats(c) ==
    [symbol_to_name_cache_size |-> Cardinality(DOMAIN c.symbol_name),
     name_to_results_cache_size |-> Cardinality(DOMAIN c.name_results),
     bk_tree_size |-> Cardinality(DOMAIN c.description_to_symbol)]

\* Cache._load_bk_tree_data, run by Cache.__init__ when the process starts
LoadBkTreeData(c) ==
    RebuildBkTree([c EXCEPT !.description_to_symbol =
                              IF c.blob.present THEN c.blob.data ELSE EmptyMap])

\* the store at time t: the keys whose time to live has run out are gone
ExpireKeys(c, t) ==
    LET deadN == {k \in DOMAIN c.name_results : c.expires.name_results[k] <= t}
        deadS == {k \in DOMAIN c.symbol_name : c.expires.symbol_name[k] <= t}
    IN [c EXCEPT !.name_results = Del(@, deadN),
                 !.symbol_name = Del(@, deadS),
                 !.expires = [name_results |-> Del(@.name_results, deadN),
                              symbol_name |-> Del(@.symbol_name, deadS)],
                 !.blob = IF @.present /\ @.expires <= t THEN NoBlob ELSE @]

\* ------------------------------------------------------------------------
\* TypoChecker over the corpus data/company.txt
\* ------------------------------------------------------------------------
\* the lines of the corpus file
CorpusLines == {<<"a", "b", " ", "c">>}

\* TypoChecker._normalize_concatenate: lower case, without punctuation and spaces
NormalizeConcatenate(name) ==
    SelectSeq(Lower(name), LAMBDA ch : ch \notin {".", " "})

\* TypoChecker.requires_check: the suggestions, closest first, at most max_suggestions;
\* the corpus of the model has one line, so the order among equal distances does not arise
RequiresCheck(query) ==
    LET modified_query == NormalizeConcatenate(query)
        keys == {NormalizeConcatenate(l) : l \in CorpusLines}
        found == {l \in CorpusLines :
                    levenshtein_distance(modified_query, NormalizeConcatenate(l)) <= DIST_THRESH}
    IN IF modified_query \in keys \/ found = {} THEN <<>>
       ELSE <<CHOOSE l \in found : TRUE>>

\* the order of str in Python on the characters of the model (by code point)
CodePoints == <<" ", ".", "?", "A", "B", "C", "X", "a", "b", "c", "x">>
Ord(ch) == CHOOSE i \in DOMAIN CodePoints : CodePoints[i] = ch

RECURSIVE StrLess(_, _)
StrLess(s, t) ==
    IF t = <<>> THEN FALSE
    ELSE IF s = <<>> THEN TRUE
    ELSE IF Head(s) = Head(t) THEN StrLess(Tail(s), Tail(t))
    ELSE Ord(Head(s)) < Ord(Head(t))

\* (distance, item) < (distance, item) of Python tuples
PairLess(x, y) == x[1] < y[1] \/ (x[1] = y[1] /\ StrLess(x[2], y[2]))

\* the list find returns: the pairs found, sorted
RECURSIVE SortedPairs(_)
SortedPairs(found) ==
    IF found = {} THEN <<>>
    ELSE LET first == CHOOSE x \in found : \A y \in found \ {x} : PairLess(x, y)
         IN <<first>> \o SortedPairs(found \ {first})

\* TypoChecker._load_corpus: self.map, and its keys in the order of the dict
RECURSIVE LoadCorpus(_, _, _, _)
LoadCorpus(companies, i, map, keys) ==
    IF i > Len(companies) THEN [map |-> map, keys |-> keys]
    ELSE LET concatenated == NormalizeConcatenate(companies[i]) IN
         LoadCorpus(companies, i + 1, Put(map, concatenated, companies[i]),
                    IF concatenated \in DOMAIN map THEN keys
                    ELSE Append(keys, concatenated))

\* requires_check that suggests the forms without spaces instead of the lines
RequiresCheckForms(companies, query, positive, max_suggestions) ==
    LET loaded == LoadCorpus(companies, 1, EmptyMap, <<>>)
        modified_query == NormalizeConcatenate(query)
        candidates == SortedPairs(BkQuery(BkBuild(EmptyMap, loaded.keys, 1),
                                          modified_query, DIST_THRESH))
        suggestions == [i \in 1..Len(candidates) |->
                          <<candidates[i][2], candidates[i][1]>>]
    IN IF positive \/ loaded.keys = <<>> THEN <<>>
       ELSE SubSeq(suggestions, 1, Min(Len(suggestions), max_suggestions))

\* TypoChecker.requires_check(query, max_suggestions) of a TypoChecker loaded
\* with the lines companies; positive is the answer of the Bloom filter to
\* "modified_query in self.bloom_filter"
RequiresCheckOf(companies, query, positive, max_suggestions) ==
    LET loaded == LoadCorpus(companies, 1, EmptyMap, <<>>)
        modified_query == NormalizeConcatenate(query)
        candidates == SortedPairs(BkQuery(BkBuild(EmptyMap, loaded.keys, 1),
                                          modified_query, DIST_THRESH))
        suggestions == [i \in 1..Len(candidates) |->
                          <<loaded.map[candidates[i][2]], candidates[i][1]>>]
    IN IF positive \/ loaded.keys = <<>> THEN <<>>
       ELSE SubSeq(suggestions, 1, Min(Len(suggestions), max_suggestions))

\* ------------------------------------------------------------------------
\* get_symbol_from_name: the queries it sends, and its choice among the results
\* ------------------------------------------------------------------------
Truncate20(q) == IF Len(q) > 20 THEN SubSeq(q, 1, 20) ELSE q

\* the loop "for word_count in range(len(entities), 0, -1)"
WordQueries(name) ==
    LET entities == Split(ReplaceDots(Strip(Lower(name)))) IN
    [n \in 1..Len(entities) |->
        Truncate20(Join(SubSeq(entities, 1, Len(entities) + 1 - n)))]

\* the queries of the word loop, then those of "for suggestion, distance in suggestions[:3]"
Queries(name) ==
    LET sug == RequiresCheck(name) IN
    WordQueries(name) \o SubSeq(sug, 1, Min(3, Len(sug)))

\* the exact match among the results, or None
RECURSIVE ExactMatch(_, _, _)
ExactMatch(name, company_info, i) ==
    IF i > Len(company_info) THEN None
    ELSE IF company_info[i].symbol # <<>> /\ company_info[i].description # <<>>
            /\ Strip(Lower(name)) = Strip(Lower(company_info[i].description))
    THEN company_info[i].symbol
    ELSE ExactMatch(name, company_info, i + 1)

\* the first result at the least distance, or None
RECURSIVE BestMatch(_, _, _, _, _)
BestMatch(name, company_info, i, best_match, min_distance) ==
    IF i > Len(company_info) THEN best_match
    ELSE LET usable == company_info[i].symbol # <<>> /\ company_info[i].description # <<>>
             distance == levenshtein_distance(Strip(Lower(name)),
                                              Strip(Lower(company_info[i].description)))
         IN IF usable /\ (min_distance = -1 \/ distance < min_distance)
            THEN BestMatch(name, company_info, i + 1, company_info[i].symbol, distance)
            ELSE BestMatch(name, company_info, i + 1, best_match, min_distance)

\* lines 137-170 of get_symbol_from_name
SelectSymbol(name, company_info) ==
    LET exact == ExactMatch(name, company_info, 1) IN
    IF exact # None THEN exact
    ELSE BestMatch(name, company_info, 1, None, -1)

\* ------------------------------------------------------------------------
\* The lookup provider
\* ------------------------------------------------------------------------
Name1 == <<"a", "b", " ", "c">>
Symbol1 == <<"A", "B">>
Symbol2 == <<"A", "C">>
Cand1 == [symbol |-> Symbol1, description |-> <<"A", "b", " ", "c">>]
Cand2 == [symbol |-> Symbol2, description |-> <<"a", "b">>]

\* what one request can be answered with: a payload, a rate-limit response (429)
\* or another failure (timeout, 5xx); the payload of the search is the list
\* "result", that of the profile is its field "name" ("" when there is none)
ProviderAnswers(field) ==
    LET payloads == IF field = "symbol"
                    THEN {<<Cand1>>, <<Cand2, Cand1>>}
                    ELSE {<<"A", "b", " ", "c">>}
        empty == <<>>
    IN {[kind |-> "ok", payload |-> v] : v \in payloads}
       \cup (IF provider = "any"
             THEN {[kind |-> "ok", payload |-> empty],
                   [kind |-> "429", payload |-> empty],
                   [kind |-> "error", payload |-> empty]}
             ELSE {})

\* ------------------------------------------------------------------------
\* retry_handler
\* ------------------------------------------------------------------------
\* what the wrapper does with the outcome of attempt number attempt:
\* "return" the response, "sleep" and go on, go on at once ("continue"), or "raise"
RetryHandler(attempt, kind) ==
    CASE kind = "ok" -> "return"
      [] kind = "429" -> IF attempt > MAX_RETRIES THEN "raise" ELSE "sleep"
      [] OTHER -> "continue"

\* a wait that grows by one second with every attempt
WaitTimeLinear(attempt) == 2 * (attempt + 1) + 1

\* wait_time = (2**attepmt) + 0.5, in half seconds
WaitTime(attempt) == 2 * (2 ^ attempt) + 1

\* "for attepmt in range(max_retries + 1)": there is another attempt
HasNextAttempt(attempt) == attempt + 1 < MAX_RETRIES + 1

\* ------------------------------------------------------------------------
\* process_single
\* ------------------------------------------------------------------------
Failed(row, reason) ==
    [row EXCEPT !.lookupStatus = "failed", !.failureReason = reason]

\* lines 349-355 of process_single
Mark(enriched_row, lookup_success, cache_hit) ==
    IF lookup_success /\ enriched_row.lookupStatus = NoMark
    THEN [enriched_row EXCEPT !.isEnriched = "true", !.lookupStatus = "success",
                              !.cache_hit = IF cache_hit THEN "true" ELSE "false"]
    ELSE IF enriched_row.lookupStatus = NoMark
    THEN Failed(enriched_row, "No matching data found")
    ELSE enriched_row

\* lines 330-355 of process_single: the row, given how the lookup task ended
\* (kind "exception" with its detail, "value" with the value, or "none")
Epilogue(enriched_row, field_name, kind, value) ==
    CASE kind = "exception" -> Mark(Failed(enriched_row, value), FALSE, FALSE)
      [] kind = "value" -> Mark([enriched_row EXCEPT ![field_name] = value], TRUE, FALSE)
      [] OTHER -> Mark(Failed(enriched_row,
                              IF field_name = "symbol" THEN "No matching symbol found"
                              ELSE "No matching name found"), FALSE, FALSE)

Pending(row, field, c, val) ==
    [done |-> FALSE, out |-> row, field |-> field, cache |-> c,
     consulted |-> TRUE, cacheVal |-> val]

Settled(out, c, field, consulted, val) ==
    [done |-> TRUE, out |-> out, field |-> field, cache |-> c,
     consulted |-> consulted, cacheVal |-> val]

\* a process_single that marks every row it is given: the complete rows as
\* enriched, the others as failed
ProcessSingleMarksAll(row, c) ==
    {Settled(Mark(row, ~Missing(row), FALSE), c, "-", FALSE, None)}

\* lines 299-323 of process_single, up to the await: the row is settled, or a
\* lookup of one field is pending
ProcessSingleStart(row, c) ==
    IF ~Missing(row) THEN {Settled(row, c, "-", FALSE, None)}
    ELSE IF Falsy(row.symbol) /\ ~Falsy(row.name)
    THEN IF ~IsStr(row.name)
         THEN {Settled(Failed(row, "Internal Server Error"), c, "symbol", FALSE, None)}
         ELSE {IF ~Falsy(g.value)
               THEN Settled(Mark([row EXCEPT !.symbol = g.value], TRUE, TRUE),
                            g.cache, "symbol", TRUE, g.value)
               ELSE Pending(row, "symbol", g.cache, None)
               : g \in CacheGetSymbol(c, row.name)}
    ELSE IF Falsy(row.name) /\ ~Falsy(row.symbol)
    THEN IF ~IsStr(row.symbol)
         THEN {Settled(Failed(row, "Internal Server Error"), c, "name", FALSE, None)}
         ELSE LET cached_name == CacheGetName(c, row.symbol) IN
              IF ~Falsy(cached_name)
              THEN {Settled(Mark([row EXCEPT !.name = cached_name], TRUE, TRUE),
                            c, "name", TRUE, cached_name)}
              ELSE {Pending(row, "name", c, None)}
    ELSE {Settled(Mark(row, FALSE, FALSE), c, "-", FALSE, None)}

\* ------------------------------------------------------------------------
\* lookup_missing_data and its row tasks
\* ------------------------------------------------------------------------
NewTask(row) ==
    [pc |-> "queued", row |-> row, out |-> row, field |-> "-", qi |-> 0,
     attempt |-> 0, called |-> FALSE, consulted |-> FALSE, cacheVal |-> None,
     only429 |-> FALSE, ended |-> "-", all429 |-> FALSE, exhausted |-> FALSE,
     wait |-> 0, answered |-> "-", status |-> 0]

\* "async with semaphore" can be entered
CanAcquire(b) == semaphore[b] > 0

\* lookup_missing_data up to the gather over the rows
LookupStart(b) ==
    /\ batches[b].state = "idle"
    /\ LET data == batches[b].data
           missing_rows == Cardinality({i \in 1..Len(data) : Missing(data[i])})
       IN IF missing_rows = 0
          THEN /\ batches' = [batches EXCEPT ![b].state = "returned", ![b].result = data]
               /\ UNCHANGED <<tasks, semaphore>>
          ELSE /\ batches' = [batches EXCEPT ![b].state = "running",
                                             ![b].enriched_count = missing_rows]
               /\ tasks' = [tasks EXCEPT ![b] = [i \in 1..Len(data) |-> NewTask(data[i])]]
               /\ semaphore' = [semaphore EXCEPT ![b] = CONCURRENCY_LIMIT]
    /\ UNCHANGED <<provider, cache, rlVars, lastOp, applied, test_cache>>

\* a row task that gives its permit back only when its row was enriched
SettleKeepsOnFailure(b, i, out, held, task) ==
    /\ tasks' = [tasks EXCEPT ![b][i] = [task EXCEPT !.pc = "done", !.out = out]]
    /\ batches' = [batches EXCEPT
                      ![b].cache_hits = IF out.cache_hit = "true" THEN @ + 1 ELSE @,
                      ![b].outOfOrder = @ \/ \E j \in 1..(i - 1) : tasks[b][j].pc # "done"]
    /\ semaphore' = [semaphore EXCEPT ![b] = IF held /\ out.lookupStatus = "success"
                                              THEN @ + 1 ELSE @]

\* the row task ends: process_single returns out, the cache hit is counted,
\* the semaphore is released (held tells whether the task had it across an await)
Settle(b, i, out, held, task) ==
    /\ tasks' = [tasks EXCEPT ![b][i] = [task EXCEPT !.pc = "done", !.out = out]]
    /\ batches' = [batches EXCEPT
                      ![b].cache_hits = IF out.cache_hit = "true" THEN @ + 1 ELSE @,
                      ![b].outOfOrder = @ \/ \E j \in 1..(i - 1) : tasks[b][j].pc # "done"]
    /\ semaphore' = [semaphore EXCEPT ![b] = IF held THEN @ + 1 ELSE @]

\* process(row): the semaphore is acquired and process_single runs to its await
Start(b, i) ==
    /\ batches[b].state = "running"
    /\ tasks[b][i].pc = "queued"
    /\ CanAcquire(b)
    /\ \E o \in ProcessSingleStart(tasks[b][i].row, cache) :
         LET task == [tasks[b][i] EXCEPT !.consulted = o.consulted,
                                         !.cacheVal = o.cacheVal,
                                         !.field = o.field]
         IN /\ cache' = o.cache
            /\ IF o.done
               THEN Settle(b, i, o.out, FALSE, task)
               ELSE /\ tasks' = [tasks EXCEPT ![b][i] = [task EXCEPT !.pc = "gather"]]
                    /\ semaphore' = [semaphore EXCEPT ![b] = @ - 1]
                    /\ UNCHANGED batches
    /\ UNCHANGED <<provider, rlVars, lastOp, applied, test_cache>>

\* the lookup task returns or raises, and process_single goes on to its end
Finish(b, i, kind, value, task) ==
    Settle(b, i, Epilogue(task.row, task.field, kind, value), TRUE, task)

\* a request is sent to the provider: attempt number attempt for query number qi
SendCall(b, i, qi, attempt, task) ==
    /\ tasks' = [tasks EXCEPT ![b][i] =
                    [task EXCEPT !.pc = "call", !.qi = qi, !.attempt = attempt,
                                 !.called = TRUE,
                                 !.only429 = IF attempt = 0 THEN TRUE ELSE @]]
    /\ UNCHANGED <<batches, semaphore>>

\* get_symbol_from_name / get_name_from_symbol from their first line to the
\* first request, or to their return when there is none
Begin(b, i) ==
    /\ tasks[b][i].pc = "gather"
    /\ LET task == tasks[b][i]
           row == task.row
       IN IF task.field = "symbol"
          THEN IF Strip(row.name) = <<>>
               THEN cache' = cache /\ Finish(b, i, "none", None, task)
               ELSE \E g \in CacheGetSymbol(cache, row.name) :
                      /\ cache' = g.cache
                      /\ IF ~Falsy(g.value)
                         THEN Finish(b, i, "value", g.value,
                                     [task EXCEPT !.cacheVal = g.value])
                         ELSE IF Len(WordQueries(row.name)) = 0
                         THEN Finish(b, i, "none", None, task)
                         ELSE SendCall(b, i, 1, 0, task)
          ELSE /\ cache' = cache
               /\ IF ~is_valid(row.symbol)
                  THEN Finish(b, i, "value", <<>>, task)
                  ELSE IF ~Falsy(CacheGetName(cache, row.symbol))
                  THEN Finish(b, i, "value", CacheGetName(cache, row.symbol),
                              [task EXCEPT !.cacheVal = CacheGetName(cache, row.symbol)])
                  ELSE SendCall(b, i, 1, 0, task)
    /\ UNCHANGED <<provider, rlVars, lastOp, applied, test_cache>>

\* the wrapped call is over: it returned payload (got) or None (~got);
\* get_symbol_from_name / get_name_from_symbol go on from there
WrapperReturned(b, i, got, payload, task0) ==
    LET task == [task0 EXCEPT !.ended = IF got THEN "value" ELSE "none",
                              !.all429 = task0.only429,
                              !.exhausted = @ \/ ~got,
                              !.answered = IF got THEN "ok"
                                           ELSE IF task0.pc = "backoff" THEN "429"
                                           ELSE "error",
                              !.wait = 0, !.status = 0]
        row == task.row
    IN
    IF task.field = "symbol"
    THEN IF got /\ payload # <<>>
         THEN /\ cache' = CacheSetNameToSymbols(cache, row.name, payload)
              /\ LET symbol == SelectSymbol(row.name, payload) IN
                 IF symbol # None THEN Finish(b, i, "value", symbol, task)
                 ELSE Finish(b, i, "none", None, task)
         ELSE /\ cache' = cache
              /\ IF task.qi < Len(Queries(row.name))
                 THEN SendCall(b, i, task.qi + 1, 0, task)
                 ELSE Finish(b, i, "none", None, task)
    ELSE IF got /\ Strip(payload) # <<>>
         THEN /\ cache' = CacheSetSymbolToName(cache, Strip(Upper(row.symbol)), Strip(payload))
              /\ Finish(b, i, "value", Strip(payload), task)
         ELSE /\ cache' = cache
              /\ Finish(b, i, "none", None, task)

\* the wrapped call raises: get_* turns it into its own HTTPException
WrapperRaised(b, i, task0) ==
    LET task == [task0 EXCEPT !.ended = "raised", !.all429 = task0.only429,
                              !.exhausted = TRUE, !.answered = "429",
                              !.status = 500] IN
    /\ cache' = cache
    /\ Finish(b, i, "exception",
              IF task.field = "symbol" THEN "Failed to lookup symbol"
              ELSE "Failed to lookup company name", task)

\* the for loop of retry_handler goes to its next attempt, or ends
NextAttempt(b, i, task) ==
    IF HasNextAttempt(task.attempt)
    THEN cache' = cache /\ SendCall(b, i, task.qi, task.attempt + 1,
                                    [task EXCEPT !.wait = 0])
    ELSE WrapperReturned(b, i, FALSE, <<>>, task)

\* the provider answers the request in flight
Respond(b, i) ==
    /\ tasks[b][i].pc = "call"
    /\ \E a \in ProviderAnswers(tasks[b][i].field) :
         LET task == [tasks[b][i] EXCEPT !.only429 = @ /\ a.kind = "429"]
             do == RetryHandler(task.attempt, a.kind)
         IN CASE do = "return" -> WrapperReturned(b, i, TRUE, a.payload, task)
              [] do = "sleep" ->
                    /\ tasks' = [tasks EXCEPT ![b][i] =
                                    [task EXCEPT !.pc = "backoff",
                                                 !.wait = WaitTime(task.attempt)]]
                    /\ UNCHANGED <<cache, batches, semaphore>>
              [] do = "raise" -> WrapperRaised(b, i, task)
              [] OTHER -> NextAttempt(b, i, task)
    /\ UNCHANGED <<provider, rlVars, lastOp, applied, test_cache>>

\* asyncio.sleep(wait_time) of retry_handler is over
Wake(b, i) ==
    /\ tasks[b][i].pc = "backoff"
    /\ NextAttempt(b, i, tasks[b][i])
    /\ UNCHANGED <<provider, rlVars, lastOp, applied, test_cache>>

\* a gather that keeps only the rows that needed a lookup
GatherMissing(b) ==
    LET all == [i \in 1..Len(tasks[b]) |-> tasks[b][i]]
        kept == SelectSeq(all, LAMBDA t : Missing(t.row))
    IN [i \in 1..Len(kept) |-> kept[i].out]

\* asyncio.gather(*[process(row) for row in data]): the results in the order of the rows
Gather(b) == [i \in 1..Len(tasks[b]) |-> tasks[b][i].out]

\* the gather over the rows is complete: lookup_missing_data returns
LookupReturn(b) ==
    /\ batches[b].state = "running"
    /\ \A i \in 1..Len(tasks[b]) : tasks[b][i].pc = "done"
    /\ batches' = [batches EXCEPT ![b].state = "returned", ![b].result = Gather(b)]
    /\ UNCHANGED <<provider, cache, tasks, semaphore, rlVars, lastOp, applied, test_cache>>

\* ------------------------------------------------------------------------
\* The operations on company_cache, as its callers and the clock order them
\* ------------------------------------------------------------------------
\* length in seconds of a step of the clock of the cache
CacheTickSeconds == 150
\* the clock of the cache stops at MaxCacheClock
MaxCacheClock == 450

Cand3 == [symbol |-> <<"X", "X">>, description |-> <<"x", "x", "x", "x", "x">>]
\* the names given to set_name_to_symbols and the search results stored for them
SetNames == {Name1}
CandidateLists == {<<Cand1>>, <<Cand3, Cand1>>}
\* the names asked of get_symbol_from_name
Questions == {Name1, <<"a", "b">>, <<"c", "c", "c", "c", "c">>}
\* the symbols and names given to set_symbol_to_name, the symbols asked of get_name_from_symbol
SetSymbols == {Symbol1, <<"a", "b", " ">>}
SymbolNames == {<<"A", "b", " ", "c">>, <<"a", "b">>}
AskedSymbols == SetSymbols \cup {Symbol2}

\* no operation yet. lastWrite is the time of the latest write to the store (-1:
\* none), cleared tells that nothing was set since clear_cache, setNames holds
\* for each symbol the name and time of its latest set_symbol_to_name
NoOp ==
    [op |-> "none", arg |-> <<>>, value |-> None, before |-> EmptyCache,
     prev |-> [op |-> "none", arg |-> <<>>, results |-> <<>>],
     lastWrite |-> -1, cleared |-> FALSE, setNames |-> EmptyMap]

\* the record of an operation op(arg) that returned value
OpRecord(op, arg, results, value) ==
    [lastOp EXCEPT !.op = op, !.arg = arg, !.value = value, !.before = cache,
                   !.prev = [op |-> lastOp.op, arg |-> lastOp.arg,
                             results |-> IF lastOp.op = "set_names"
                                         THEN lastOp.prev.results ELSE <<>>]]

\* what the operations on the cache leave alone
cacheFrame ==
    <<rpm, buckets, cleanup_task, redis, redisUp, lastCall, burst, resetMark, spent,
      provider, batches, tasks, semaphore, applied, test_cache>>

\* company_cache.set_name_to_symbols(name, search_results)
SetNameToSymbols(name, search_results) ==
    /\ cache' = CacheSetNameToSymbols(cache, name, search_results)
    /\ lastOp' = [OpRecord("set_names", name, <<>>, None) EXCEPT
                     !.prev.results = search_results,
                     !.lastWrite = now, !.cleared = FALSE]
    /\ UNCHANGED <<now, cacheFrame>>

\* company_cache.set_symbol_to_name(symbol, name)
SetSymbolToName(symbol, name) ==
    /\ cache' = CacheSetSymbolToName(cache, symbol, name)
    /\ lastOp' = [OpRecord("set_symbol", symbol, <<>>, None) EXCEPT
                     !.lastWrite = now, !.cleared = FALSE,
                     !.setNames = Put(@, Strip(Upper(symbol)),
                                      [name |-> name, time |-> now])]
    /\ UNCHANGED <<now, cacheFrame>>

\* company_cache.get_symbol_from_name(name)
GetSymbolFromName(name) ==
    /\ \E g \in CacheGetSymbol(cache, name) :
         /\ cache' = g.cache
         /\ lastOp' = [OpRecord("get_symbol", name, <<>>, g.value) EXCEPT
                          !.lastWrite = IF g.cache # cache THEN now ELSE @]
    /\ UNCHANGED <<now, cacheFrame>>

\* company_cache.get_name_from_symbol(symbol)
GetNameFromSymbol(symbol) ==
    /\ lastOp' = OpRecord("get_name", symbol, <<>>, CacheGetName(cache, symbol))
    /\ UNCHANGED <<now, cache, cacheFrame>>

\* company_cache.clear_cache()
ClearCacheCall ==
    /\ cache' = ClearCache(cache)
    /\ lastOp' = [OpRecord("clear", <<>>, <<>>, None) EXCEPT
                     !.cleared = TRUE, !.setNames = EmptyMap]
    /\ UNCHANGED <<now, cacheFrame>>

\* the process is started again: Cache.__init__ loads the index from the store
CacheRestart ==
    /\ cache' = LoadBkTreeData(cache)
    /\ lastOp' = OpRecord("init", <<>>, <<>>, None)
    /\ UNCHANGED <<now, cacheFrame>>

\* the clock advances; the store drops the keys whose time to live has run out
CacheTick ==
    /\ now + CacheTickSeconds <= MaxCacheClock
    /\ now' = now + CacheTickSeconds
    /\ cache' = ExpireKeys(cache, now + CacheTickSeconds)
    /\ lastOp' = OpRecord("tick", <<>>, <<>>, None)
    /\ UNCHANGED cacheFrame

\* ------------------------------------------------------------------------
\* Functions on their own: the arguments are drawn at the start, one action
\* for each function applies it
\* ------------------------------------------------------------------------
NoApplication == [fn |-> "none", done |-> TRUE, args |-> <<>>, result |-> <<>>]

\* fn(args) not yet evaluated
Application(fn, args) == [fn |-> fn, done |-> FALSE, args |-> args, result |-> <<>>]

Ready(fn) == applied.fn = fn /\ ~applied.done

Return(result) ==
    /\ applied' = [applied EXCEPT !.done = TRUE, !.result = result]
    /\ UNCHANGED <<rlVars, provider, cache, batches, tasks, semaphore, lastOp, test_cache>>

\* the buckets tried: capacity c, refill_rate c / 60 as __init__ of the middleware
\* sets it, any level in steps of half a token, t seconds after the last refill
MaxCapacity == 5
MaxWait == 13

BucketArgs ==
    {[bucket |-> [capacity |-> c, tokens |-> k * (Scale \div 2),
                  refill_rate |-> (c * Scale) \div 60, last_refill |-> t0],
      now |-> t0 + t] :
        c \in 1..MaxCapacity, k \in 0..(2 * MaxCapacity), t \in 0..MaxWait, t0 \in {0, 7}}

\* bucket._refill() at time now
ApplyRefill ==
    /\ Ready("_refill")
    /\ Return(Refill(applied.args.bucket, applied.args.now))

\* bucket.consume() at time now
ApplyConsume ==
    /\ Ready("consume")
    /\ Return(Consume(applied.args.bucket, 1, applied.args.now))

\* the strings tried: every string of at most MaxLen characters of Alphabet
MaxLen == 3
Alphabet == {"a", "b", "c"}
Strings == UNION {[1..n -> Alphabet] : n \in 0..MaxLen}

\* the key sets tried, each in every order of insertion, and the radii
MaxKeys == 3
IndexKeys == {<<"c", "a">>, <<"a", "b", "c">>, <<"a", "c">>, <<"a", "b">>, <<"b">>}
KeyLists ==
    {keys \in UNION {[1..n -> IndexKeys] : n \in 0..MaxKeys} :
        \A i, j \in DOMAIN keys : i # j => keys[i] # keys[j]}

\* BKTree(levenshtein_distance), add of every key, find(target, n)
ApplyBkFind ==
    /\ Ready("find")
    /\ Return(BkQuery(BkBuild(EmptyMap, applied.args.keys, 1),
                      applied.args.target, applied.args.n))

\* the corpora tried: one line; two lines of the same form without spaces;
\* five near lines; six near lines
MAX_SUGGESTIONS == 5
NearLines == << <<"a", "c">>, <<"b", "c">>, <<"c">>, <<"a">>, <<"a", " ", "b">>, <<"b">> >>
Corpora ==
    { << <<"a", "b", " ", "c">> >>,
      << <<"a", "b", " ", "c">>, <<"a", "b", "c">> >>,
      SubSeq(NearLines, 1, MAX_SUGGESTIONS),
      NearLines,
      << <<"a", "b", "c", "a", "b">>, <<"c">> >> }

\* the queries tried: the strings, and names written with a space or a dot
TypoQueries ==
    Strings \cup { <<"a", "b", " ", "c">>, <<"A", ".", "b", " ", "c">>, <<"a", "b", " ", "a">>,
                   <<"c", "c", "c", "c", "c">> }

\* the answers "modified_query in self.bloom_filter" can give: True for a
\* string that was added, and True or False for any other
BloomAnswers(companies, query) ==
    IF \E i \in DOMAIN companies :
          NormalizeConcatenate(companies[i]) = NormalizeConcatenate(query)
    THEN {TRUE} ELSE BOOLEAN

\* typo_checker.requires_check(query)
ApplyRequiresCheck ==
    /\ Ready("requires_check")
    /\ Return(RequiresCheckOf(applied.args.companies, applied.args.query,
                              applied.args.positive, MAX_SUGGESTIONS))

\* a request as _get_client_ip reads it: the headers X-Forwarded-For and
\* X-Real-IP (None when the request does not carry them) and request.client
\* (present FALSE: request.client is None)
NoClient == [present |-> FALSE, host |-> <<>>]
Peer(host) == [present |-> TRUE, host |-> host]

Requests ==
    [forwarded : {None, <<>>, <<"a">>, <<"a", ",", " ", "b">>, <<" ", "a", " ", ",", "b">>,
                  <<",", "b">>},
     real_ip : {None, <<>>, <<"b">>},
     client : {NoClient, Peer(<<"c">>), Peer(<<>>)}]

\* s.split(",")[0]
FirstField(s) ==
    LET commas == {i \in 1..Len(s) : s[i] = ","} IN
    IF commas = {} THEN s
    ELSE SubSeq(s, 1, (CHOOSE i \in commas : \A j \in commas : i <= j) - 1)

\* an exception leaves the function
Raise(exception) == [raised |-> TRUE, value |-> exception]
\* the function returns value
Returns(value) == [raised |-> FALSE, value |-> value]

\* RateLimitMiddleware._get_client_ip: request.client.host, the default of
\* headers.get, is evaluated before the header is looked up
GetClientIp(request) ==
    IF ~request.client.present THEN Raise("AttributeError")
    ELSE LET forwarded_for == IF request.forwarded = None THEN request.client.host
                              ELSE request.forwarded
         IN IF ~Falsy(forwarded_for) THEN Returns(Strip(FirstField(forwarded_for)))
            ELSE IF ~Falsy(request.real_ip) THEN Returns(request.real_ip)
            ELSE Returns(request.client.host)

\* self._get_client_ip(request)
ApplyGetClientIp ==
    /\ Ready("_get_client_ip")
    /\ Return(GetClientIp(applied.args))

\* levenshtein_distance(s1, s2)
ApplyLevenshtein ==
    /\ Ready("levenshtein_distance")
    /\ Return(levenshtein_distance(applied.args.s1, applied.args.s2))

\* ------------------------------------------------------------------------
\* The cache when the store stops answering: an operation gets answers to its
\* first ok requests to the store, every later request raises
\* ------------------------------------------------------------------------
\* the k-th request of the operation is answered
Answered(ok, k) == k <= ok

\* an operation ends: an exception leaves it or it returns value, the cache afterwards
Outcome(raised, value, c) == [raised |-> raised, value |-> value, cache |-> c]

\* redis_client.get of a pickled list: <<>> stands for no value under the key
StoreGetList(up, map, key) ==
    IF ~up THEN Raise("ConnectionError")
    ELSE Returns(IF key \in DOMAIN map THEN map[key] ELSE <<>>)

\* redis_client.get of a string
StoreGet(up, map, key) ==
    IF ~up THEN Raise("ConnectionError")
    ELSE Returns(IF key \in DOMAIN map THEN map[key] ELSE None)

\* Cache.get_symbol_from_name
get_symbol_from_name(c, name, ok) ==
    LET normalized_name == Strip(Lower(name))
        data == StoreGetList(Answered(ok, 1), c.name_results, normalized_name)
        matches == BkFind(c.bk_tree, normalized_name, DIST_THRESH)
        best == {d \in matches : \A e \in matches :
                    levenshtein_distance(normalized_name, d)
                        <= levenshtein_distance(normalized_name, e)}
    IN
    IF ~data.raised /\ data.value # <<>>
    THEN {Outcome(FALSE, data.value[1].symbol, c)}
    \* no value, or the except block has passed over the error of get
    ELSE IF DOMAIN c.description_to_symbol = {} \/ matches = {}
    THEN {Outcome(FALSE, None, c)}
    ELSE {IF d \notin DOMAIN c.description_to_symbol
             \/ Falsy(c.description_to_symbol[d])
          THEN Outcome(FALSE, None, c)
          ELSE Outcome(FALSE, c.description_to_symbol[d],
                       \* the error of setex is passed over as well
                       IF Answered(ok, 2)
                       THEN [c EXCEPT !.name_results =
                                Put(@, normalized_name,
                                    <<[symbol |-> c.description_to_symbol[d],
                                       description |-> d]>>),
                                      !.expires.name_results =
                                Put(@, normalized_name, now + CACHE_TTL)]
                       ELSE c)
          : d \in best}

\* Cache.get_name_from_symbol
get_name_from_symbol(c, symbol, ok) ==
    LET data == StoreGet(Answered(ok, 1), c.symbol_name, Strip(Upper(symbol))) IN
    IF data.raised THEN Outcome(FALSE, None, c)
    ELSE IF ~Falsy(data.value) THEN Outcome(FALSE, data.value, c)
    ELSE Outcome(FALSE, None, c)

\* Cache.set_symbol_to_name
set_symbol_to_name(c, symbol, name, ok) ==
    IF Answered(ok, 1)
    THEN Outcome(FALSE, None, CacheSetSymbolToName(c, symbol, name))
    ELSE Outcome(FALSE, None, c)

\* Cache.set_name_to_symbols: the error of the first setex ends the try block,
\* the error of the second is logged by _save_bk_tree_data
set_name_to_symbols(c, name, search_results, ok) ==
    LET folded ==
            [c EXCEPT !.name_results = Put(@, Strip(Lower(name)), search_results),
                      !.expires.name_results =
                          Put(@, Strip(Lower(name)), now + CACHE_TTL),
                      !.description_to_symbol = FoldDescriptions(@, search_results, 1)]
    IN IF ~Answered(ok, 1) THEN Outcome(FALSE, None, c)
       ELSE IF FoldRaises(search_results) THEN Outcome(FALSE, None, folded)
       ELSE IF ~Answered(ok, 2) THEN Outcome(FALSE, None, RebuildBkTree(folded))
       ELSE Outcome(FALSE, None, SaveBkTreeData(RebuildBkTree(folded)))

\* Cache.clear_cache: an error of a scan or of the delete ends the try block
\* before the mapping is cleared
clear_cache(c, ok) ==
    IF Answered(ok, 3) THEN Outcome(FALSE, None, ClearCache(c))
    ELSE Outcome(FALSE, None, c)

\* Cache.get_cache_stats
get_cache_stats(c, ok) ==
    IF Answered(ok, 2) THEN Outcome(FALSE, CacheStats(c), c)
    ELSE Outcome(FALSE,
                 [symbol_to_name_cache_size |-> 0, name_to_results_cache_size |-> 0,
                  bk_tree_size |-> Cardinality(DOMAIN c.description_to_symbol)],
                 c)

\* Cache.__init__ with _load_bk_tree_data
load_bk_tree_data(c, ok) ==
    IF Answered(ok, 1) THEN Outcome(FALSE, None, LoadBkTreeData(c))
    ELSE Outcome(FALSE, None,
                 RebuildBkTree([c EXCEPT !.description_to_symbol = EmptyMap]))

\* no operation yet
NoAttempt ==
    [op |-> "none", arg |-> <<>>, ok |-> 0, failed |-> FALSE, raised |-> FALSE,
     value |-> None, before |-> EmptyCache]

\* what an operation on the cache leaves alone when the store may fail
outageFrame ==
    <<now, rpm, buckets, cleanup_task, redis, lastCall, burst, resetMark, spent,
      provider, batches, tasks, semaphore, applied, test_cache>>

\* the operation op(arg), which sends at most calls requests to the store, ends
\* with the outcome out after ok answers: the store has stopped answering unless
\* it answered every request
Attempt(op, arg, ok, calls, out) ==
    /\ ok \in (IF redisUp THEN 0..calls ELSE {0})
    /\ cache' = out.cache
    /\ redisUp' = (ok = calls)
    /\ lastOp' = [op |-> op, arg |-> arg, ok |-> ok, failed |-> (ok < calls),
                  raised |-> out.raised, value |-> out.value, before |-> cache]
    /\ UNCHANGED outageFrame

TryGetSymbolFromName(name, ok) ==
    \E out \in get_symbol_from_name(cache, name, ok) : Attempt("get_symbol", name, ok, 2, out)

TryGetNameFromSymbol(symbol, ok) ==
    Attempt("get_name", symbol, ok, 1, get_name_from_symbol(cache, symbol, ok))

TrySetSymbolToName(symbol, name, ok) ==
    Attempt("set_symbol", symbol, ok, 1, set_symbol_to_name(cache, symbol, name, ok))

TrySetNameToSymbols(name, search_results, ok) ==
    Attempt("set_names", name, ok, IF FoldRaises(search_results) THEN 1 ELSE 2,
            set_name_to_symbols(cache, name, search_results, ok))

TryClearCache(ok) == Attempt("clear", <<>>, ok, 3, clear_cache(cache, ok))

TryGetCacheStats(ok) == Attempt("stats", <<>>, ok, 2, get_cache_stats(cache, ok))

TryRestart(ok) == Attempt("init", <<>>, ok, 1, load_bk_tree_data(cache, ok))

\* the store answers again
StoreBack ==
    /\ ~redisUp
    /\ redisUp' = TRUE
    /\ UNCHANGED <<now, rpm, buckets, cleanup_task, redis, lastCall, burst, resetMark,
                   spent, enVars>>

\* the store stops answering between two requests
StoreDown ==
    /\ redisUp
    /\ redisUp' = FALSE
    /\ UNCHANGED <<now, rpm, buckets, cleanup_task, redis, lastCall, burst, resetMark,
                   spent, enVars>>

\* ------------------------------------------------------------------------
\* Specifications
\* ------------------------------------------------------------------------
\* the admission controller: the enrichment pipeline stays idle
Init ==
    /\ now = 0
    /\ rpm \in 1..MaxRequestsPerMinute
    /\ buckets = [p \in Procs |-> EmptyMap]
    /\ cleanup_task = [p \in Procs |-> NoTask]
    /\ redis = EmptyMap
    /\ redisUp = TRUE
    /\ lastCall = NoCall
    /\ burst = Void
    /\ resetMark = [ip \in IPs |-> "-"]
    /\ spent = [p \in Procs |-> [ip \in IPs |-> NotServed]]
    /\ provider = "healthy"
    /\ cache = EmptyCache
    /\ batches = [b \in Batches |-> IdleBatch(<<>>)]
    /\ tasks = [b \in Batches |-> <<>>]
    /\ semaphore = [b \in Batches |-> 0]
    /\ lastOp = NoOp
    /\ applied = NoApplication
    /\ test_cache = NoIndex

Next ==
    \/ \E p \in Procs, ip \in Clients : Call(p, ip)
    \/ \E p \in Procs, ip \in Clients : CallPrivate(p, ip)
    \/ \E p \in Procs : Cleanup(p)
    \/ \E p \in Procs : Restart(p)
    \/ ShortTick
    \/ LongTick
    \/ RedisToggle

Spec == Init /\ [][Next]_vars

\* the admission controller left alone: requests may stop arriving, the clock
\* keeps advancing up to MaxIdleClock and a cleanup task whose sleep is over runs
MaxIdleClock == 7260

IdleTick(d) ==
    /\ now + d <= MaxIdleClock
    /\ d = TickSeconds => (now % BUCKET_CLEANUP_FREQ) + TickSeconds <= MaxDrift
    /\ Tick(d)

NextIdle ==
    \/ \E p \in Procs, ip \in Clients : Call(p, ip)
    \/ \E p \in Procs : Cleanup(p)
    \/ \E d \in {TickSeconds, BUCKET_CLEANUP_FREQ} : IdleTick(d)

SpecIdle ==
    /\ Init
    /\ [][NextIdle]_vars
    /\ \A p \in Procs : WF_vars(Cleanup(p))
    /\ WF_vars(IdleTick(BUCKET_CLEANUP_FREQ))
    /\ WF_vars(IdleTick(TickSeconds))

\* rows that come back from an earlier pass with its marks
Marked(row, isEnriched, lookupStatus, failureReason) ==
    [row EXCEPT !.isEnriched = isEnriched, !.lookupStatus = lookupStatus,
                !.failureReason = failureReason]

Resolved == CacheSetNameToSymbols(EmptyCache, Name1, <<Cand1>>)

\* the batches the enrichment is explored on: what the cache holds at the start,
\* how the provider behaves and the rows of two concurrent lookup requests
Scenarios ==
    { \* a complete row, a row the cache resolves, a row that needs the provider
      [cache |-> Resolved, provider |-> "any",
       A |-> <<Row(Name1, Symbol1), Row(Name1, <<>>), Row(<<>>, Symbol2)>>,
       B |-> <<>>],
      \* rows sent again with the marks of an earlier pass, next to a new row
      [cache |-> EmptyCache, provider |-> "any",
       A |-> <<Marked(Row(Name1, <<>>), "true", "success", NoMark)>>,
       B |-> <<Row(<<"a", "b">>, <<>>)>>],
      [cache |-> Resolved, provider |-> "any",
       A |-> <<Marked(Row(Name1, <<>>), NoMark, "failed", "No matching symbol found"),
               Row(<<>>, <<"a", "?">>)>>,
       B |-> <<Row(<<>>, <<>>), Row(NonStr, <<>>), Row(<<>>, NonStr)>>],
      \* more rows than the semaphore admits, and a second request meanwhile
      [cache |-> EmptyCache, provider |-> "healthy",
       A |-> [i \in 1..(CONCURRENCY_LIMIT + 1) |-> Row(<<>>, Symbol1)],
       B |-> <<Row(<<>>, Symbol2)>>],
      \* the same name asked by two requests: the second may find what the
      \* first has cached
      [cache |-> EmptyCache, provider |-> "healthy",
       A |-> <<Row(Name1, <<>>)>>,
       B |-> <<Row(Name1, <<>>)>>] }

InitEnrich ==
    /\ now = 0
    /\ rpm = 1
    /\ buckets = [p \in Procs |-> EmptyMap]
    /\ cleanup_task = [p \in Procs |-> NoTask]
    /\ redis = EmptyMap
    /\ redisUp = TRUE
    /\ lastCall = NoCall
    /\ burst = Void
    /\ resetMark = [ip \in IPs |-> "-"]
    /\ spent = [p \in Procs |-> [ip \in IPs |-> NotServed]]
    /\ \E sc \in Scenarios :
         /\ provider = sc.provider
         /\ cache = sc.cache
         /\ batches = [b \in Batches |-> IdleBatch(sc[b])]
    /\ tasks = [b \in Batches |-> <<>>]
    /\ semaphore = [b \in Batches |-> 0]
    /\ lastOp = NoOp
    /\ applied = NoApplication
    /\ test_cache = NoIndex

NextEnrich ==
    \/ \E b \in Batches : LookupStart(b)
    \/ \E b \in Batches : \E i \in DOMAIN tasks[b] : Start(b, i)
    \/ \E b \in Batches : \E i \in DOMAIN tasks[b] : Begin(b, i)
    \/ \E b \in Batches : \E i \in DOMAIN tasks[b] : Respond(b, i)
    \/ \E b \in Batches : \E i \in DOMAIN tasks[b] : Wake(b, i)
    \/ \E b \in Batches : LookupReturn(b)

SpecEnrich == InitEnrich /\ [][NextEnrich]_vars

\* the cache on its own: the store answers every request, one process uses it
InitCache ==
    /\ now = 0
    /\ rpm = 1
    /\ buckets = [p \in Procs |-> EmptyMap]
    /\ cleanup_task = [p \in Procs |-> NoTask]
    /\ redis = EmptyMap
    /\ redisUp = TRUE
    /\ lastCall = NoCall
    /\ burst = Void
    /\ resetMark = [ip \in IPs |-> "-"]
    /\ spent = [p \in Procs |-> [ip \in IPs |-> NotServed]]
    /\ provider = "healthy"
    /\ cache = EmptyCache
    /\ batches = [b \in Batches |-> IdleBatch(<<>>)]
    /\ tasks = [b \in Batches |-> <<>>]
    /\ semaphore = [b \in Batches |-> 0]
    /\ lastOp = NoOp
    /\ applied = NoApplication
    /\ test_cache = NoIndex

NextCache ==
    \/ \E name \in SetNames, results \in CandidateLists : SetNameToSymbols(name, results)
    \/ \E symbol \in SetSymbols, name \in SymbolNames : SetSymbolToName(symbol, name)
    \/ \E name \in Questions : GetSymbolFromName(name)
    \/ \E symbol \in AskedSymbols : GetNameFromSymbol(symbol)
    \/ ClearCacheCall
    \/ CacheRestart
    \/ CacheTick

SpecCache == InitCache /\ [][NextCache]_vars

\* the name-keyed half of company_cache on its own, with the fuzzy hits on record:
\* descriptions nearer to a name asked before are added under another name
PinLists == {<<Cand1>>, <<Cand2>>}
PinQuestions == {Name1, <<"a", "b">>}

\* no fuzzy hit is on record for a name
NoPin == [symbol |-> None, time |-> -1, broken |-> FALSE]

\* the fuzzy hits on record, those of the names in names marked as followed by a
\* clear_cache or by a set_name_to_symbols of the name
BreakPins(pins, names) ==
    [q \in DOMAIN pins |-> IF q \in names THEN [pins[q] EXCEPT !.broken = TRUE]
                           ELSE pins[q]]

\* no operation yet. pins holds for each name the symbol and time of its latest
\* fuzzy hit, found is the fuzzy hit on record for the name asked
NoPinOp ==
    [op |-> "none", arg |-> <<>>, value |-> None, before |-> EmptyCache,
     pins |-> EmptyMap, found |-> NoPin]

PinRecord(op, arg, value) ==
    [lastOp EXCEPT !.op = op, !.arg = arg, !.value = value, !.before = cache,
                   !.found = NoPin]

\* company_cache.set_name_to_symbols(name, search_results)
StoreResults(name, search_results) ==
    /\ cache' = CacheSetNameToSymbols(cache, name, search_results)
    /\ lastOp' = [PinRecord("set_names", name, None) EXCEPT
                     !.pins = BreakPins(@, {Strip(Lower(name))})]
    /\ UNCHANGED <<now, cacheFrame>>

\* company_cache.get_symbol_from_name(name)
AskName(name) ==
    /\ \E g \in CacheGetSymbol(cache, name) :
         /\ cache' = g.cache
         /\ lastOp' = [PinRecord("get_symbol", name, g.value) EXCEPT
                          !.found = IF Strip(Lower(name)) \in DOMAIN lastOp.pins
                                    THEN lastOp.pins[Strip(Lower(name))] ELSE NoPin,
                          !.pins = IF g.cache # cache
                                   THEN Put(@, Strip(Lower(name)),
                                            [symbol |-> g.value, time |-> now,
                                             broken |-> FALSE])
                                   ELSE @]
    /\ UNCHANGED <<now, cacheFrame>>

\* company_cache.clear_cache()
ClearAll ==
    /\ cache' = ClearCache(cache)
    /\ lastOp' = [PinRecord("clear", <<>>, None) EXCEPT !.pins = BreakPins(@, DOMAIN @)]
    /\ UNCHANGED <<now, cacheFrame>>

\* the process is started again: Cache.__init__ loads the index from the store
StartAgain ==
    /\ cache' = LoadBkTreeData(cache)
    /\ lastOp' = PinRecord("init", <<>>, None)
    /\ UNCHANGED <<now, cacheFrame>>

\* the clock advances; the store drops the keys whose time to live has run out
PinTick ==
    /\ now + CacheTickSeconds <= MaxCacheClock
    /\ now' = now + CacheTickSeconds
    /\ cache' = ExpireKeys(cache, now + CacheTickSeconds)
    /\ lastOp' = [PinRecord("tick", <<>>, None) EXCEPT
                     !.pins = Del(@, {q \in DOMAIN @ :
                                         @[q].time + CACHE_TTL <= now + CacheTickSeconds})]
    /\ UNCHANGED cacheFrame

InitPin ==
    /\ now = 0
    /\ rpm = 1
    /\ buckets = [p \in Procs |-> EmptyMap]
    /\ cleanup_task = [p \in Procs |-> NoTask]
    /\ redis = EmptyMap
    /\ redisUp = TRUE
    /\ lastCall = NoCall
    /\ burst = Void
    /\ resetMark = [ip \in IPs |-> "-"]
    /\ spent = [p \in Procs |-> [ip \in IPs |-> NotServed]]
    /\ provider = "healthy"
    /\ cache = EmptyCache
    /\ batches = [b \in Batches |-> IdleBatch(<<>>)]
    /\ tasks = [b \in Batches |-> <<>>]
    /\ semaphore = [b \in Batches |-> 0]
    /\ lastOp = NoPinOp
    /\ applied = NoApplication
    /\ test_cache = NoIndex

NextPin ==
    \/ \E name \in SetNames, results \in PinLists : StoreResults(name, results)
    \/ \E name \in PinQuestions : AskName(name)
    \/ ClearAll
    \/ StartAgain
    \/ PinTick

SpecPin == InitPin /\ [][NextPin]_vars

\* company_cache and test_cache, the two instances of the module, on one store
\* the time to live of the entries of a Cache made with test_mode
TEST_TTL == 180

\* the store of c as seen by the instance whose mapping and index are l
WithIndex(c, l) ==
    [c EXCEPT !.description_to_symbol = l.description_to_symbol, !.bk_tree = l.bk_tree]

\* the mapping and the index of the instance of c
IndexOf(c) == [description_to_symbol |-> c.description_to_symbol, bk_tree |-> c.bk_tree]

\* test_cache.set_name_to_symbols: the method of Cache with ttl_seconds = 180
TestSetNameToSymbols(c, l, name, search_results) ==
    LET out == CacheSetNameToSymbols(WithIndex(c, l), name, search_results) IN
    [out EXCEPT !.expires.name_results = Put(@, Strip(Lower(name)), now + TEST_TTL),
                !.blob = IF FoldRaises(search_results) THEN @
                         ELSE [@ EXCEPT !.expires = now + TEST_TTL]]

\* the names and search results the two instances write
PeerNames == {Name1, <<"a", "b">>}
PeerLists == {<<Cand1>>, <<Cand2>>, <<Cand3>>}

\* no write yet. written holds every description with its symbol that a
\* set_name_to_symbols of either instance has folded
NoWrite == [op |-> "none", by |-> "none", written |-> EmptyMap]

\* company_cache.set_name_to_symbols(name, search_results)
CompanySets(name, search_results) ==
    /\ cache' = CacheSetNameToSymbols(cache, name, search_results)
    /\ lastOp' = [op |-> "set_names", by |-> "company_cache",
                  written |-> FoldDescriptions(lastOp.written, search_results, 1)]
    /\ UNCHANGED <<now, cacheFrame>>

\* test_cache.set_name_to_symbols(name, search_results)
TestSets(name, search_results) ==
    LET out == TestSetNameToSymbols(cache, test_cache, name, search_results) IN
    /\ cache' = WithIndex(out, IndexOf(cache))
    /\ test_cache' = IndexOf(out)
    /\ lastOp' = [op |-> "set_names", by |-> "test_cache",
                  written |-> FoldDescriptions(lastOp.written, search_results, 1)]
    /\ UNCHANGED <<now, rpm, buckets, cleanup_task, redis, redisUp, lastCall, burst,
                   resetMark, spent, provider, batches, tasks, semaphore, applied>>

\* the module is loaded again by a new process: both instances are made anew,
\* each loads the blob of the store
ModuleLoads ==
    /\ cache' = LoadBkTreeData(cache)
    /\ test_cache' = IndexOf(LoadBkTreeData(WithIndex(cache, test_cache)))
    /\ lastOp' = [lastOp EXCEPT !.op = "init", !.by = "none"]
    /\ UNCHANGED <<now, rpm, buckets, cleanup_task, redis, redisUp, lastCall, burst,
                   resetMark, spent, provider, batches, tasks, semaphore, applied>>

InitPeers ==
    /\ now = 0
    /\ rpm = 1
    /\ buckets = [p \in Procs |-> EmptyMap]
    /\ cleanup_task = [p \in Procs |-> NoTask]
    /\ redis = EmptyMap
    /\ redisUp = TRUE
    /\ lastCall = NoCall
    /\ burst = Void
    /\ resetMark = [ip \in IPs |-> "-"]
    /\ spent = [p \in Procs |-> [ip \in IPs |-> NotServed]]
    /\ provider = "healthy"
    /\ cache = EmptyCache
    /\ batches = [b \in Batches |-> IdleBatch(<<>>)]
    /\ tasks = [b \in Batches |-> <<>>]
    /\ semaphore = [b \in Batches |-> 0]
    /\ lastOp = NoWrite
    /\ applied = NoApplication
    /\ test_cache = NoIndex

NextPeers ==
    \/ \E name \in PeerNames, results \in PeerLists : CompanySets(name, results)
    \/ \E name \in PeerNames, results \in PeerLists : TestSets(name, results)
    \/ ModuleLoads

SpecPeers == InitPeers /\ [][NextPeers]_vars

\* the admission check and the cache while the store comes and goes
OutageClients == {"a"}
\* the names asked of get_symbol_from_name: the name that was set and a name
\* the index resolves
OutageQuestions == {Name1, <<"a", "b">>}

\* a search result of the provider whose description is null
CandNull == [symbol |-> <<"X">>, description |-> None]
\* the search results handed to set_name_to_symbols
OutageLists == {<<Cand1>>, <<Cand1, CandNull>>}

InitOutage ==
    /\ now = 0
    /\ rpm = 1
    /\ buckets = [p \in Procs |-> EmptyMap]
    /\ cleanup_task = [p \in Procs |-> NoTask]
    /\ redis = EmptyMap
    /\ redisUp = TRUE
    /\ lastCall = NoCall
    /\ burst = Void
    /\ resetMark = [ip \in IPs |-> "-"]
    /\ spent = [p \in Procs |-> [ip \in IPs |-> NotServed]]
    /\ provider = "healthy"
    /\ cache = EmptyCache
    /\ batches = [b \in Batches |-> IdleBatch(<<>>)]
    /\ tasks = [b \in Batches |-> <<>>]
    /\ semaphore = [b \in Batches |-> 0]
    /\ lastOp = NoAttempt
    /\ applied = NoApplication
    /\ test_cache = NoIndex

NextOutage ==
    \/ \E p \in Procs, ip \in OutageClients : Call(p, ip)
    \/ StoreDown
    \/ StoreBack
    \/ \E name \in OutageQuestions, ok \in 0..2 : TryGetSymbolFromName(name, ok)
    \/ \E symbol \in {Symbol1, Symbol2}, ok \in 0..1 : TryGetNameFromSymbol(symbol, ok)
    \/ \E ok \in 0..1 : TrySetSymbolToName(Symbol1, Name1, ok)
    \/ \E results \in OutageLists, ok \in 0..2 : TrySetNameToSymbols(Name1, results, ok)
    \/ \E ok \in 0..3 : TryClearCache(ok)
    \/ \E ok \in 0..2 : TryGetCacheStats(ok)
    \/ \E ok \in 0..1 : TryRestart(ok)

SpecOutage == InitOutage /\ [][NextOutage]_vars

\* the functions on their own: the arguments of one application are drawn
InitFn ==
    /\ now = 0
    /\ rpm = 1
    /\ buckets = [p \in Procs |-> EmptyMap]
    /\ cleanup_task = [p \in Procs |-> NoTask]
    /\ redis = EmptyMap
    /\ redisUp = TRUE
    /\ lastCall = NoCall
    /\ burst = Void
    /\ resetMark = [ip \in IPs |-> "-"]
    /\ spent = [p \in Procs |-> [ip \in IPs |-> NotServed]]
    /\ provider = "healthy"
    /\ cache = EmptyCache
    /\ batches = [b \in Batches |-> IdleBatch(<<>>)]
    /\ tasks = [b \in Batches |-> <<>>]
    /\ semaphore = [b \in Batches |-> 0]
    /\ lastOp = NoOp
    /\ test_cache = NoIndex
    /\ \/ \E a \in BucketArgs :
             /\ a.bucket.tokens <= a.bucket.capacity * Scale
             /\ applied \in {Application("_refill", a), Application("consume", a)}
       \/ \E s1 \in Strings, s2 \in Strings :
             applied = Application("levenshtein_distance", [s1 |-> s1, s2 |-> s2])
       \/ \E keys \in KeyLists, target \in Strings, n \in 0..DIST_THRESH :
             applied = Application("find", [keys |-> keys, target |-> target, n |-> n])
       \/ \E request \in Requests : applied = Application("_get_client_ip", request)
       \/ \E companies \in Corpora, query \in TypoQueries :
             \E positive \in BloomAnswers(companies, query) :
                applied = Application("requires_check",
                                      [companies |-> companies, query |-> query,
                                       positive |-> positive])

NextFn ==
    \/ ApplyRefill
    \/ ApplyConsume
    \/ ApplyLevenshtein
    \/ ApplyBkFind
    \/ ApplyRequiresCheck
    \/ ApplyGetClientIp

SpecFn == InitFn /\ [][NextFn]_vars

\* ------------------------------------------------------------------------
\* Properties of the admission controller
\* ------------------------------------------------------------------------
LastBucket == buckets[lastCall.proc][lastCall.ip]

\* C1: a bucket created fresh with capacity N has admitted at most N unit-cost
\* consumptions while no time has elapsed, each of them took exactly one token,
\* and a request is denied (429) only once N have been admitted; through the
\* middleware N is requests_per_minute.
C1_FreshBucketAdmitsCapacity ==
    /\ \A p \in Procs, ip \in IPs :
         burst[p][ip] # -1 =>
            /\ ip \in DOMAIN buckets[p]
            /\ buckets[p][ip].capacity = rpm
            /\ burst[p][ip] <= buckets[p][ip].capacity
            /\ buckets[p][ip].tokens = (buckets[p][ip].capacity - burst[p][ip]) * Scale
    /\ (lastCall.kind = "public" /\ burst[lastCall.proc][lastCall.ip] # -1) =>
         (lastCall.status = 429 <=> (lastCall.avail = 0 /\ burst[lastCall.proc][lastCall.ip] = rpm))

C1_Witness ==
    /\ lastCall.kind = "public" /\ lastCall.status = 429
    /\ rpm = MaxRequestsPerMinute
    /\ burst[lastCall.proc][lastCall.ip] = rpm

\* C2: every bucket, in the memory of a process or persisted in the store,
\* holds between 0 and capacity tokens.
C2_TokensWithinCapacity ==
    /\ \A p \in Procs : \A ip \in DOMAIN buckets[p] :
         /\ 0 <= buckets[p][ip].tokens
         /\ buckets[p][ip].tokens <= buckets[p][ip].capacity * Scale
    /\ \A ip \in DOMAIN redis :
         /\ 0 <= redis[ip].data.tokens
         /\ redis[ip].data.tokens <= redis[ip].data.capacity * Scale

\* a bucket re-created from its persisted state whose refill was cut at capacity
C2_Witness ==
    /\ lastCall.kind = "public" /\ lastCall.source = "store"
    /\ lastCall.start < lastCall.avail
    /\ lastCall.avail = LastBucket.capacity * Scale
    /\ now - BUCKET_CLEANUP_FREQ < LastBucket.last_refill

\* C8 as stated: whenever the store holds the client's bucket, an admission
\* check starts its consume from the token count the store holds.
C8_ReadThroughEveryCheck ==
    (lastCall.kind = "public" /\ lastCall.storeHad) =>
        lastCall.start = lastCall.storeTokens

\* C8 amended: every admission check writes the bucket back when the store is
\* reachable; the store is read only by a process that holds no bucket for the
\* client in memory, and that process starts from the persisted count; a process
\* that holds the bucket in memory goes on from its own copy.
C8_ReadOnMissWriteBack ==
    lastCall.kind = "public" =>
        /\ lastCall.storeUp =>
              /\ lastCall.ip \in DOMAIN redis
              /\ redis[lastCall.ip].data = LastBucket
              /\ redis[lastCall.ip].expires = now + BUCKET_CLEANUP_FREQ
        /\ (~lastCall.memHad /\ lastCall.storeHad) =>
              (lastCall.source = "store" /\ lastCall.start = lastCall.storeTokens)
        /\ lastCall.memHad => lastCall.source = "memory"

\* a process without the bucket in memory took over the count left by the other one
C8_Witness ==
    /\ lastCall.kind = "public" /\ ~lastCall.memHad /\ lastCall.storeHad
    /\ lastCall.storeTokens < rpm * Scale
    /\ \E q \in Procs \ {lastCall.proc} : lastCall.ip \in DOMAIN buckets[q]

\* C9: with less than one token after the refill the middleware answers 429
\* with the fixed detail, does not call the downstream handler and persists the
\* bucket (the refill recorded, nothing taken); with a token available it calls
\* the downstream handler exactly once.
C9_DenialIsNormalOutcome ==
    lastCall.kind = "public" =>
        /\ lastCall.avail < Scale =>
              /\ lastCall.status = 429
              /\ lastCall.detail = DeniedDetail
              /\ lastCall.called = 0
              /\ LastBucket.tokens = lastCall.avail
              /\ LastBucket.last_refill = now
              /\ lastCall.storeUp =>
                    (lastCall.ip \in DOMAIN redis /\ redis[lastCall.ip].data = LastBucket)
        /\ lastCall.avail >= Scale =>
              /\ lastCall.status = 200
              /\ lastCall.called = 1
              /\ LastBucket.tokens = lastCall.avail - Scale

\* a denial with a fraction of a token in the bucket, persisted
C9_Witness ==
    /\ lastCall.kind = "public" /\ lastCall.status = 429
    /\ 0 < lastCall.avail /\ lastCall.avail < Scale
    /\ lastCall.start < lastCall.avail
    /\ lastCall.storeUp

\* C10 as stated: after a reset the bucket is in no in-memory map entry of the
\* serving process and not in the store, and the client's next admission check
\* runs on a new full bucket and is admitted.
C10_ResetStartsFresh ==
    /\ lastCall.kind = "private" =>
          /\ lastCall.ip \notin DOMAIN buckets[lastCall.proc]
          /\ lastCall.ip \notin DOMAIN redis
    /\ (lastCall.kind = "public" /\ lastCall.afterReset # "-") =>
          /\ lastCall.source = "fresh"
          /\ lastCall.start = rpm * Scale
          /\ lastCall.status = 200

\* C10 amended: after a reset the bucket is absent from the in-memory map of the
\* process that served the reset and, when the store was reachable, from the
\* store; if the delete reached the store, the client's next admission check,
\* when the same process serves it, runs on a new full bucket and is admitted.
C10_ResetOnServingProcess ==
    /\ lastCall.kind = "private" =>
          /\ lastCall.ip \notin DOMAIN buckets[lastCall.proc]
          /\ lastCall.storeUp => lastCall.ip \notin DOMAIN redis
    /\ (lastCall.kind = "public" /\ lastCall.afterReset = lastCall.proc) =>
          /\ lastCall.source = "fresh"
          /\ lastCall.start = rpm * Scale
          /\ lastCall.avail = rpm * Scale
          /\ lastCall.status = 200

\* the first admission check after a reset, served by the process that reset,
\* while another process still holds the client's old bucket
C10_Witness ==
    /\ lastCall.kind = "public" /\ lastCall.afterReset = lastCall.proc
    /\ \E q \in Procs \ {lastCall.proc} :
          /\ lastCall.ip \in DOMAIN buckets[q]
          /\ buckets[q][lastCall.ip].tokens < Scale

\* C11: a request to the privileged reset path is never denied and reaches its
\* handler, and it consumes no token, creates no bucket and persists nothing:
\* every bucket left in a map or in the store is as it was before the request.
C11_ResetBypassesAdmission ==
    [][lastCall'.kind = "private" =>
         /\ lastCall'.status = 200 /\ lastCall'.called = 1
         /\ \A q \in Procs : \A k \in DOMAIN buckets'[q] :
               k \in DOMAIN buckets[q] /\ buckets'[q][k] = buckets[q][k]
         /\ \A k \in DOMAIN redis' :
               k \in DOMAIN redis /\ redis'[k] = redis[k]]_vars

\* a reset served for a client whose bucket had less than one token left
C11_Witness ==
    /\ lastCall.kind = "private" /\ lastCall.status = 200
    /\ lastCall.memHad /\ lastCall.avail < Scale

\* C13: within one process, whatever the order of the requests of one client
\* and of the cleanup pass, the requests admitted while no time elapses take
\* one token each of those the first of them found: they are never more than
\* that count, nor more than the capacity.
C13_TokenSpentOnce ==
    \A p \in Procs, ip \in IPs :
        spent[p][ip].first # -1 =>
            /\ spent[p][ip].n * Scale <= spent[p][ip].first
            /\ spent[p][ip].first <= rpm * Scale
            /\ ip \in DOMAIN buckets[p]
            /\ buckets[p][ip].tokens = spent[p][ip].first - spent[p][ip].n * Scale

\* a denial once the tokens of a bucket that was not new have all been taken
\* in one instant, in a process whose cleanup pass has run
C13_Witness ==
    /\ lastCall.kind = "public" /\ lastCall.status = 429
    /\ lastCall.source = "memory" /\ burst[lastCall.proc][lastCall.ip] = -1
    /\ spent[lastCall.proc][lastCall.ip].n = MaxRequestsPerMinute
    /\ cleanup_task[lastCall.proc].state = "done"

\* a step of the model is a cleanup pass of process p
CleanupPass(p) == cleanup_task[p].state = "pending" /\ cleanup_task'[p].state = "done"

\* C12: a cleanup pass removes from the in-memory map exactly the buckets whose
\* last refill is older than BUCKET_CLEANUP_FREQ, and the bucket of a client
\* refilled within that window is left as it was, in the map and in the store.
C12_CleanupRemovesExactlyIdle ==
    [][\A p \in Procs : CleanupPass(p) =>
         /\ DOMAIN buckets'[p] =
               {ip \in DOMAIN buckets[p] :
                   now - buckets[p][ip].last_refill <= BUCKET_CLEANUP_FREQ}
         /\ \A ip \in DOMAIN buckets'[p] : buckets'[p][ip] = buckets[p][ip]
         /\ \A ip \in DOMAIN redis :
               now - redis[ip].data.last_refill <= BUCKET_CLEANUP_FREQ =>
                  (ip \in DOMAIN redis' /\ redis'[ip] = redis[ip])]_vars

\* ------------------------------------------------------------------------
\* Properties of the enrichment pipeline
\* ------------------------------------------------------------------------
\* the row tasks that have returned
DoneTasks ==
    {t \in UNION {{tasks[b][i] : i \in DOMAIN tasks[b]} : b \in Batches} : t.pc = "done"}

SuccessShape(out) ==
    out.isEnriched = "true" /\ out.lookupStatus = "success" /\ out.failureReason = NoMark

FailureShape(out) ==
    out.lookupStatus = "failed" /\ out.failureReason # NoMark /\ out.isEnriched = NoMark

\* C3: every row returned by process_single is in exactly one of three shapes:
\* a complete row is passed through as it came, and a row that lacked a field
\* is either enriched-success (isEnriched, lookupStatus "success", no
\* failureReason) or enriched-failure (lookupStatus "failed", a failureReason,
\* isEnriched not set), never a mixture of the two
C3_ExactlyOneTerminalShape ==
    \A t \in DoneTasks :
        IF ~Missing(t.row) THEN t.out = t.row
        ELSE SuccessShape(t.out) # FailureShape(t.out)

\* C4: a row whose provider call failed on every attempt (the retries are
\* exhausted) ends with lookupStatus "failed" and a failureReason
C4_ExhaustedRowFails ==
    \A t \in DoneTasks :
        t.exhausted => t.out.lookupStatus = "failed" /\ t.out.failureReason # NoMark

\* C5: a wrapped provider call whose every attempt was answered with 429 ends
\* by raising, never by returning
C5_AllRateLimitedRaises ==
    \A b \in Batches : \A i \in DOMAIN tasks[b] :
        tasks[b][i].all429 => tasks[b][i].ended = "raised"

\* C6: for a row lacking exactly one of name and symbol the cache is consulted
\* before any provider call, and when the cache returns a value the row is
\* filled with it, marked success, and no provider call is issued for the row
C6_CacheHitFillsAndMarks ==
    \A t \in DoneTasks :
        (Falsy(t.row.name) # Falsy(t.row.symbol)) =>
            /\ t.called => t.consulted
            /\ t.cacheVal # None =>
                 /\ t.out[t.field] = t.cacheVal
                 /\ t.out.lookupStatus = "success"
                 /\ ~t.called

\* the lookups of lookup_missing_data that have returned
Returned == {b \in Batches : batches[b].state = "returned"}

\* C14: the list returned by lookup_missing_data has the length of its input,
\* position i holds what processing input row i gave (the fields the row came
\* with are those of input row i), in whatever order the row tasks ended, and
\* enriched_count is the number of input rows that lack a name or a symbol.
C14_ResultInInputOrder ==
    \A b \in Returned :
        LET data == batches[b].data
            result == batches[b].result
        IN /\ Len(result) = Len(data)
           /\ \A i \in 1..Len(data) :
                 /\ ~Falsy(data[i].name) => result[i].name = data[i].name
                 /\ ~Falsy(data[i].symbol) => result[i].symbol = data[i].symbol
                 /\ ~Missing(data[i]) => result[i] = data[i]
                 /\ tasks[b] # <<>> =>
                       (tasks[b][i].row = data[i] /\ result[i] = tasks[b][i].out)
           /\ batches[b].enriched_count =
                 Cardinality({i \in 1..Len(data) : Missing(data[i])})

\* a batch of complete and incomplete rows has returned, and a row task ended
\* before the task of an earlier row
C14_Witness ==
    \E b \in Returned :
        /\ batches[b].outOfOrder
        /\ \E i, j \in 1..Len(batches[b].data) :
              /\ ~Missing(batches[b].data[i]) /\ Missing(batches[b].data[j])
              /\ batches[b].result[j] # batches[b].data[j]

\* the row lacked a field and got it although no request went to the provider
ResolvedWithoutCall(t) ==
    /\ Missing(t.row) /\ ~t.called
    /\ t.field \in {"name", "symbol"} /\ ~Falsy(t.out[t.field])

\* C15: the cache-hit count of a returned batch is the number of its rows that
\* were resolved without any provider call, in every interleaving of the row tasks
C15_CacheHitsCountUncalled ==
    \A b \in Returned :
        batches[b].cache_hits =
            Cardinality({i \in DOMAIN tasks[b] : ResolvedWithoutCall(tasks[b][i])})

\* the cache holds what the provider answered for the field of the row
Written(c, t) ==
    IF t.field = "symbol"
    THEN /\ Strip(Lower(t.row.name)) \in DOMAIN c.name_results
         /\ \E k \in DOMAIN c.name_results[Strip(Lower(t.row.name))] :
               c.name_results[Strip(Lower(t.row.name))][k].symbol = t.out.symbol
    ELSE /\ Strip(Upper(t.row.symbol)) \in DOMAIN c.symbol_name
         /\ c.symbol_name[Strip(Upper(t.row.symbol))] = t.out.name

\* C16: in the step in which a row receives a field from an answer of the
\* provider, the cache write for it (set_name_to_symbols for a symbol,
\* set_symbol_to_name for a name) has been made: the cache holds the entry
\* when the row holds the value.
C16_CacheWrittenBeforeApplied ==
    [][\A b \in Batches : \A i \in DOMAIN tasks[b] :
          (/\ tasks[b][i].pc = "call" /\ tasks'[b][i].pc = "done"
           /\ tasks'[b][i].ended = "value"
           /\ ~Falsy(tasks'[b][i].out[tasks'[b][i].field]))
          => Written(cache', tasks'[b][i])]_vars

\* a row that got its symbol from the answer to its second query
C16_Witness ==
    \E t \in DoneTasks :
        /\ t.field = "symbol" /\ t.called /\ t.ended = "value" /\ t.qi = 2
        /\ t.out.symbol = Symbol1
        /\ Written(cache, t)

\* the provider calls in flight
InFlight ==
    {c \in Batches \X (1..(CONCURRENCY_LIMIT + 1)) :
        c[2] \in DOMAIN tasks[c[1]] /\ tasks[c[1]][c[2]].pc = "call"}

\* C7: at every moment at most CONCURRENCY_LIMIT provider calls are in flight,
\* over all the rows of all the lookup requests running in the process
C7_GlobalBound == Cardinality(InFlight) <= CONCURRENCY_LIMIT

\* ------------------------------------------------------------------------
\* Properties of the cache
\* ------------------------------------------------------------------------
\* the candidates of a list whose description is within the fuzzy radius of q
Near(q, candidates) ==
    {k \in DOMAIN candidates :
        /\ candidates[k].symbol # <<>> /\ candidates[k].description # <<>>
        /\ levenshtein_distance(Strip(Lower(q)),
                                Strip(Lower(candidates[k].description))) <= DIST_THRESH}

\* C17: get_symbol_from_name(q) right after set_name_to_symbols(name, candidates)
\* returns the symbol of a candidate whose description is within the radius of
\* q when there is one, and absent when q had no exact entry and is within the
\* radius of no known description.
C17_FuzzyGetAfterSet ==
    (lastOp.op = "get_symbol" /\ lastOp.prev.op = "set_names") =>
        LET q == lastOp.arg
            candidates == lastOp.prev.results
            known == DOMAIN lastOp.before.description_to_symbol
        IN /\ Near(q, candidates) # {} =>
                \E k \in Near(q, candidates) : lastOp.value = candidates[k].symbol
           /\ (/\ Strip(Lower(q)) \notin DOMAIN lastOp.before.name_results
               /\ \A d \in known :
                     levenshtein_distance(Strip(Lower(q)), d) > DIST_THRESH)
              => lastOp.value = None

\* C18: once CACHE_TTL has elapsed since the latest write to the store,
\* get_symbol_from_name and get_name_from_symbol return absent.
C18_ExpiredIsAbsent ==
    [][(/\ lastOp' # lastOp
        /\ lastOp'.op \in {"get_symbol", "get_name"}
        /\ lastOp.lastWrite # -1 /\ now >= lastOp.lastWrite + CACHE_TTL)
       => lastOp'.value = None]_vars

\* C19: after clear_cache(), until something is set again, the store holds no
\* symbol key, no name key and no index blob, the index is empty,
\* get_cache_stats reports three zeros and every get returns absent.
C19_ClearLeavesNothing ==
    lastOp.cleared =>
        /\ cache.name_results = EmptyMap /\ cache.symbol_name = EmptyMap
        /\ ~cache.blob.present
        /\ cache.description_to_symbol = EmptyMap /\ cache.bk_tree = {}
        /\ CacheStats(cache) = [symbol_to_name_cache_size |-> 0,
                                name_to_results_cache_size |-> 0,
                                bk_tree_size |-> 0]
        /\ \A q \in Questions : \A g \in CacheGetSymbol(cache, q) : g.value = None
        /\ \A symbol \in AskedSymbols : CacheGetName(cache, symbol) = None

\* clear_cache() on a cache that held names, a name written by a fuzzy hit,
\* symbols and an index
C19_Witness ==
    /\ lastOp.op = "clear"
    /\ Cardinality(DOMAIN lastOp.before.name_results) >= 2
    /\ lastOp.before.symbol_name # EmptyMap
    /\ Cardinality(lastOp.before.bk_tree) >= 2
    /\ lastOp.before.blob.present

\* C20: get_name_from_symbol(s') returns the name of the latest
\* set_symbol_to_name(s, n) with the same upper-cased, trimmed symbol while
\* that is within CACHE_TTL and was not cleared; for a symbol never set it
\* returns absent, whatever the index of descriptions holds; it writes nothing.
C20_SymbolRoundTrip ==
    lastOp.op = "get_name" =>
        LET k == Strip(Upper(lastOp.arg)) IN
        /\ (k \in DOMAIN lastOp.setNames
               /\ now < lastOp.setNames[k].time + CACHE_TTL)
              => lastOp.value = lastOp.setNames[k].name
        /\ k \notin DOMAIN lastOp.setNames => lastOp.value = None
        /\ cache = lastOp.before

\* a name set under one spelling of the symbol and read under another, late in
\* its time to live, next to an index that holds descriptions
C20_Witness ==
    /\ lastOp.op = "get_name" /\ lastOp.arg = <<"a", "b", " ">>
    /\ lastOp.value = <<"A", "b", " ", "c">>
    /\ Symbol1 \in DOMAIN lastOp.setNames
    /\ now > lastOp.setNames[Symbol1].time
    /\ cache.bk_tree # {}

\* ------------------------------------------------------------------------
\* Properties of the functions
\* ------------------------------------------------------------------------
\* C23: a refill t seconds after last_refill adds exactly
\* min(capacity - tokens, t * refill_rate) tokens and sets last_refill to now;
\* a bucket of capacity 5 and refill_rate 5/60 that was emptied admits one
\* consume of cost 1 again 12 seconds later.
C23_RefillAddsElapsedShare ==
    /\ (applied.fn = "_refill" /\ applied.done) =>
          LET b == applied.args.bucket
              t == applied.args.now - b.last_refill
          IN /\ applied.result.tokens - b.tokens =
                    Min(b.capacity * Scale - b.tokens, t * b.refill_rate)
             /\ applied.result.last_refill = applied.args.now
    /\ (/\ applied.fn = "consume" /\ applied.done
        /\ applied.args.bucket.capacity = 5 /\ applied.args.bucket.tokens = 0
        /\ applied.args.now - applied.args.bucket.last_refill >= 12)
       => applied.result.ok

\* the emptied bucket of capacity 5, asked 12 seconds later
C23_Witness ==
    /\ applied.fn = "consume" /\ applied.done
    /\ applied.args.bucket.capacity = 5 /\ applied.args.bucket.tokens = 0
    /\ applied.args.now - applied.args.bucket.last_refill = 12
    /\ applied.result.ok /\ applied.result.bucket.tokens = 0

\* s with the characters at i and i + 1 swapped
Swapped(s, i) == [s EXCEPT ![i] = s[i + 1], ![i + 1] = s[i]]

\* C28: the distance between s and s with two adjacent, different characters
\* swapped is exactly 1.
C28_AdjacentSwapCostsOne ==
    (applied.fn = "levenshtein_distance" /\ applied.done) =>
        LET s == applied.args.s1
            t == applied.args.s2
        IN (\E i \in 1..(Len(s) - 1) : s[i] # s[i + 1] /\ t = Swapped(s, i))
           => applied.result = 1

\* "acb" against "abc": the swap inside a longer string
C28_Witness ==
    /\ applied.fn = "levenshtein_distance" /\ applied.done
    /\ applied.args.s1 = <<"a", "c", "b">> /\ applied.args.s2 = <<"a", "b", "c">>
    /\ applied.result = 1

\* C29: levenshtein_distance(s, t) is a non-negative integer, it is 0 for
\* t = s, and it equals levenshtein_distance(t, s).
C29_DistanceIsSymmetric ==
    (applied.fn = "levenshtein_distance" /\ applied.done) =>
        /\ applied.result \in Nat
        /\ applied.args.s1 = applied.args.s2 => applied.result = 0
        /\ applied.result = levenshtein_distance(applied.args.s2, applied.args.s1)

\* two strings of different lengths that are two edits apart
C29_Witness ==
    /\ applied.fn = "levenshtein_distance" /\ applied.done
    /\ applied.args.s1 = <<"a", "b">> /\ applied.args.s2 = <<"a">>
    /\ applied.result = 1

\* C27: for every key set inserted into the Metric Index and every query
\* (target, r) the result is exactly the set of the keys whose edit distance
\* to target is at most r, each with that distance.
C27_IndexFindsExactlyTheNear ==
    (applied.fn = "find" /\ applied.done) =>
        LET keys == {applied.args.keys[i] : i \in DOMAIN applied.args.keys}
            target == applied.args.target
        IN applied.result =
             {<<levenshtein_distance(target, k), k>> :
                k \in {x \in keys : levenshtein_distance(target, x) <= applied.args.n}}

\* a query that finds two of three keys, one of them below the root
C27_Witness ==
    /\ applied.fn = "find" /\ applied.done
    /\ applied.args.keys = << <<"c", "a">>, <<"a", "b", "c">>, <<"a", "c">> >>
    /\ applied.args.target = <<"a", "b", "c">> /\ applied.args.n = 1
    /\ applied.result = { <<0, <<"a", "b", "c">> >>, <<1, <<"a", "c">> >> }

\* the lines of the corpus
LinesOf(companies) == {companies[i] : i \in DOMAIN companies}

\* the names among the suggestions
Suggested(result) == {result[i][1] : i \in DOMAIN result}

\* C30: for every corpus entry o and every query q that is not itself in the
\* corpus, requires_check(q) contains o whenever the forms of q and o without
\* punctuation and spaces are within distance 3, and not when they are farther
\* (stated for the queries the Bloom filter does not take for known).
C30_SuggestsEveryNearEntry ==
    (/\ applied.fn = "requires_check" /\ applied.done
     /\ applied.args.query \notin LinesOf(applied.args.companies)
     /\ ~applied.args.positive)
    => \A o \in LinesOf(applied.args.companies) :
         LET d == levenshtein_distance(NormalizeConcatenate(applied.args.query),
                                       NormalizeConcatenate(o))
         IN IF d <= DIST_THRESH THEN o \in Suggested(applied.result)
            ELSE o \notin Suggested(applied.result)

\* C30, amended: when the Bloom filter answers that the form of q is known,
\* there is no suggestion. Otherwise no entry farther than 3 is suggested, and
\* an entry o at distance d <= 3 is suggested, with d, when no later line of
\* the corpus has the form of o and fewer than max_suggestions other forms
\* of the corpus are within d of q.
C30_SuggestsTheNearest ==
    (applied.fn = "requires_check" /\ applied.done) =>
        LET companies == applied.args.companies
            q == NormalizeConcatenate(applied.args.query)
            forms == {NormalizeConcatenate(l) : l \in LinesOf(companies)}
        IN /\ applied.args.positive => applied.result = <<>>
           /\ ~applied.args.positive =>
                \A i \in DOMAIN companies :
                  LET o == companies[i]
                      form == NormalizeConcatenate(o)
                      d == levenshtein_distance(q, form)
                      nearer == {k \in forms \ {form} : levenshtein_distance(q, k) <= d}
                      last == \A j \in DOMAIN companies :
                                  j > i => NormalizeConcatenate(companies[j]) # form
                  IN /\ d > DIST_THRESH => o \notin Suggested(applied.result)
                     /\ (d <= DIST_THRESH /\ last /\ Cardinality(nearer) < MAX_SUGGESTIONS)
                        => \E k \in DOMAIN applied.result : applied.result[k] = <<o, d>>

\* six entries near the query, of which the five nearest are suggested
C30_Witness ==
    /\ applied.fn = "requires_check" /\ applied.done
    /\ applied.args.companies = NearLines
    /\ applied.args.query = <<"c", "c">> /\ ~applied.args.positive
    /\ Len(applied.result) = MAX_SUGGESTIONS
    /\ applied.result[1] = << <<"a", "c">>, 1 >>
    /\ <<"b">> \notin Suggested(applied.result)

\* C26: the client key is the first hop of the forwarded-for header when the
\* request carries one, otherwise the real-ip header when it carries one,
\* otherwise the peer address, otherwise the sentinel "UNK"; deriving the key
\* never fails.
C26_ClientKeyOrder ==
    (applied.fn = "_get_client_ip" /\ applied.done) =>
        LET request == applied.args IN
        /\ ~applied.result.raised
        /\ applied.result.value =
              (IF ~Falsy(request.forwarded) THEN Strip(FirstField(request.forwarded))
               ELSE IF ~Falsy(request.real_ip) THEN request.real_ip
               ELSE IF request.client.present THEN request.client.host
               ELSE <<"U", "N", "K">>)

\* ------------------------------------------------------------------------
\* Properties of the enrichment, continued
\* ------------------------------------------------------------------------
\* C22: a row whose name and symbol are both populated is returned unchanged
\* by process_single, no mark added, and neither the cache nor the provider
\* is touched for it.
C22_CompleteRowPassesThrough ==
    \A b \in Batches : \A i \in DOMAIN tasks[b] :
        (tasks[b][i].pc = "done" /\ ~Missing(tasks[b][i].row)) =>
            /\ tasks[b][i].out = tasks[b][i].row
            /\ ~tasks[b][i].consulted /\ ~tasks[b][i].called
            /\ batches[b].state = "returned" => batches[b].result[i] = batches[b].data[i]

\* the complete row of a batch has passed, next to a row the cache resolved
C22_Witness ==
    /\ batches["A"].state = "returned"
    /\ ~Missing(batches["A"].data[1])
    /\ tasks["A"][1].pc = "done"
    /\ tasks["A"][2].out.cache_hit = "true"
    /\ tasks["A"][3].called

\* the tasks asleep in retry_handler
Asleep ==
    {t \in UNION {{tasks[b][i] : i \in DOMAIN tasks[b]} : b \in Batches} : t.pc = "backoff"}

\* C24: after a rate-limit signal the delay before the next attempt is
\* base * 2^attempt for one fixed base, so each delay is exactly twice the
\* previous one (delays in half seconds; two sleeping calls compared).
C24_DelayDoubles ==
    \A t1 \in Asleep : \A t2 \in Asleep :
        t1.wait * (2 ^ t2.attempt) = t2.wait * (2 ^ t1.attempt)

\* C24, amended: the delay after attempt number attempt is 2^attempt seconds
\* and half a second: 1.5, 2.5, 4.5, 8.5; the delay less the half second is
\* exactly twice the previous delay less the half second.
C24_DelayDoublesPlusHalf ==
    \A t1 \in Asleep : \A t2 \in Asleep :
        /\ t1.attempt = 0 => t1.wait = 3
        /\ (t1.wait - 1) * (2 ^ t2.attempt) = (t2.wait - 1) * (2 ^ t1.attempt)

\* two calls asleep at the same time, one after its first attempt and one
\* after its third
C24_Witness ==
    \E t1 \in Asleep : \E t2 \in Asleep :
        t1.attempt = 0 /\ t2.attempt = 2 /\ t1.wait = 3 /\ t2.wait = 9

\* C25: a provider failure surfaces from search_with_query as an
\* HTTPException, not as a normal return: with status 429 when the provider
\* answered with a rate-limit response, with status 500 when the call timed out.
C25_ProviderFailureRaises ==
    \A b \in Batches : \A i \in DOMAIN tasks[b] :
        LET t == tasks[b][i] IN
        (t.field = "symbol" /\ t.ended # "-") =>
            /\ t.answered = "429" => (t.ended = "raised" /\ t.status = 429)
            /\ t.answered = "error" => (t.ended = "raised" /\ t.status = 500)

\* ------------------------------------------------------------------------
\* Properties of the admission controller and of the cache while the store fails
\* ------------------------------------------------------------------------
\* the cache c when the store holds nothing under the key of name
Missed(c, name) ==
    [c EXCEPT !.name_results = Del(@, {Strip(Lower(name))}),
              !.expires.name_results = Del(@, {Strip(Lower(name))})]

\* C21: no failure of the store leaves the admission check or an operation of
\* the cache as an exception. With the store down the request of a client is
\* answered by its bucket alone (a bucket that cannot be loaded is created
\* fresh, the application is called when a token is left, and the persist that
\* fails changes nothing of that); a read of the cache whose get fails returns
\* what a miss returns; a write of the cache that fails returns as usual and
\* leaves the store as it was.
C21_StoreFailureStaysInside ==
    /\ (lastCall.kind = "public" /\ ~lastCall.storeUp) =>
          /\ ~lastCall.raised
          /\ lastCall.status = (IF lastCall.avail >= Scale THEN 200 ELSE 429)
          /\ lastCall.called = (IF lastCall.avail >= Scale THEN 1 ELSE 0)
          /\ (~lastCall.memHad => lastCall.source = "fresh")
    /\ (lastOp.op # "none" /\ lastOp.failed) =>
          /\ ~lastOp.raised
          /\ (lastOp.op = "get_name" /\ lastOp.ok = 0) => lastOp.value = None
          /\ (lastOp.op = "get_symbol" /\ lastOp.ok = 0) =>
                lastOp.value \in {g.value : g \in CacheGetSymbol(Missed(lastOp.before,
                                                                        lastOp.arg),
                                                                 lastOp.arg)}
          /\ (lastOp.op \in {"set_names", "set_symbol", "clear"}) => lastOp.value = None
          /\ lastOp.ok = 0 =>
                /\ cache.name_results = lastOp.before.name_results
                /\ cache.symbol_name = lastOp.before.symbol_name
                /\ cache.blob = lastOp.before.blob

\* with the store down, a process is asked by a client whose bucket lies in the
\* store only and admits it, and the cache is asked for a name the store holds
C21_Witness ==
    /\ lastCall.kind = "public" /\ ~lastCall.storeUp /\ ~lastCall.memHad
    /\ lastCall.ip \in DOMAIN redis /\ lastCall.status = 200
    /\ lastOp.op = "get_symbol" /\ lastOp.ok = 0
    /\ Strip(Lower(lastOp.arg)) \in DOMAIN lastOp.before.name_results
    /\ lastOp.value = None

\* ------------------------------------------------------------------------
\* Properties of the admission controller, continued
\* ------------------------------------------------------------------------
\* the requests of the client admitted by all processes at the present instant
AdmittedNow(ip) == spent["p1"][ip].n + spent["p2"][ip].n

\* C32: the processes together admit more requests of one client than the
\* capacity while no time elapses, and only together: the sum is above the
\* capacity only when every process has admitted some of them, none of the
\* processes more than the capacity.
C32_ExcessOnlyAcrossProcesses ==
    \A ip \in IPs :
        AdmittedNow(ip) > rpm => \A p \in Procs : spent[p][ip].n \in 1..rpm

\* a process admits a request on the count of its memory although the store
\* holds a lower count written by the other process, and the admissions of
\* the instant exceed the capacity
C32_Witness ==
    /\ lastCall.kind = "public" /\ lastCall.status = 200
    /\ AdmittedNow(lastCall.ip) > rpm
    /\ lastCall.source = "memory" /\ lastCall.storeUp /\ lastCall.storeHad
    /\ lastCall.storeTokens < lastCall.start
    /\ \A p \in Procs : spent[p][lastCall.ip].n > 0

\* the bucket of the client has been in the memory of the process for longer
\* than the idle window without a request
IdleBucket(p, ip) ==
    ip \in DOMAIN buckets[p] /\ now - buckets[p][ip].last_refill > BUCKET_CLEANUP_FREQ

\* C35: a bucket that has received no request for longer than BUCKET_CLEANUP_FREQ
\* is eventually removed from the in-memory map of its process (or is used again
\* by a request), also when no request arrives any more.
C35_IdleBucketRemoved ==
    \A p \in Procs, ip \in Clients :
        IdleBucket(p, ip) ~> ~IdleBucket(p, ip)

\* ------------------------------------------------------------------------
\* Properties of the enrichment, the retry cycle and the semaphore
\* ------------------------------------------------------------------------
\* C31: a backoff sleep of the wrapper lies between two attempts: the attempt
\* it follows is not the last one of the wrapped call (the attempts being
\* numbered 0..MAX_RETRIES, there are then at most MAX_RETRIES sleeps for a
\* wrapped call and none between the final attempt and the end of the call).
C31_BackoffBetweenAttempts ==
    \A t \in Asleep : HasNextAttempt(t.attempt)

\* the permits of the semaphore of the call that are held (a call that finds
\* no row to look up creates no semaphore)
HeldPermits(b) == IF tasks[b] = <<>> THEN 0 ELSE CONCURRENCY_LIMIT - semaphore[b]

\* the rows of the call that are inside process_single, at one of its awaits
InsideProcessSingle(b) ==
    {i \in DOMAIN tasks[b] : tasks[b][i].pc \in {"gather", "call", "backoff"}}

\* C36: in every call of lookup_missing_data the permits held are as many as
\* the rows inside process_single, never more than CONCURRENCY_LIMIT, and
\* none is held once the call has returned, however the rows ended.
C36_PermitsMatchRowsInside ==
    \A b \in Batches :
        /\ HeldPermits(b) = Cardinality(InsideProcessSingle(b))
        /\ HeldPermits(b) <= CONCURRENCY_LIMIT
        /\ batches[b].state = "returned" => HeldPermits(b) = 0

\* a call has returned with a row that failed after its provider calls, next
\* to a row that the cache resolved
C36_Witness ==
    \E b \in Batches :
        /\ batches[b].state = "returned" /\ HeldPermits(b) = 0
        /\ \E i \in DOMAIN tasks[b] :
              tasks[b][i].exhausted /\ tasks[b][i].out.lookupStatus = "failed"
        /\ \E i \in DOMAIN tasks[b] : tasks[b][i].out.cache_hit = "true"

\* C37: a row that process_single has marked with lookupStatus "success" and
\* isEnriched true (the row came without marks) is returned with a name and a
\* symbol that are both non-empty.
C37_SuccessRowIsComplete ==
    \A t \in DoneTasks :
        (t.row.lookupStatus = NoMark
         /\ t.out.lookupStatus = "success" /\ t.out.isEnriched = "true") =>
            ~Falsy(t.out.name) /\ ~Falsy(t.out.symbol)

\* C38: when a row was given its symbol by the provider path, which cached the
\* results for the name, and a row of the same name was then given its symbol
\* by the cache without a provider call, the two symbols are the same.
C38_CachedPathAgrees ==
    \A t1 \in DoneTasks, t2 \in DoneTasks :
        (/\ t1.field = "symbol" /\ t1.called /\ t1.out.lookupStatus = "success"
         /\ t1.row.lookupStatus = NoMark /\ t2.row.lookupStatus = NoMark
         /\ t2.field = "symbol" /\ ~t2.called /\ t2.out.cache_hit = "true"
         /\ t2.row.name = t1.row.name) =>
            t2.out.symbol = t1.out.symbol


\* Properties of the cache, continued

\* C33: after every operation of the cache, one that fails part-way included,
\* the strings of the index are the keys of description_to_symbol
C33_IndexIsKeysOfMapping == cache.bk_tree = DOMAIN cache.description_to_symbol


\* ------------------------------------------------------------------------
\* Properties of the cleanup task
\* ------------------------------------------------------------------------
\* the step is a request of a public path that process p admits
AdmittedBy(p) ==
    /\ lastCall'.kind = "public" /\ lastCall'.proc = p
    /\ lastCall'.status = 200 /\ lastCall'.called = 1

\* C40: a process has at most one cleanup task pending: a task is created only
\* in the step of a request that is admitted and not whitelisted, and only
\* when the process has no task or its previous task has finished; a pending
\* task is left as it is by every request.
C40_OneCleanupTask ==
    [][\A p \in Procs :
          /\ (cleanup_task'[p].state = "pending" /\ cleanup_task'[p] # cleanup_task[p]) =>
                /\ cleanup_task[p].state \in {"none", "done"}
                /\ AdmittedBy(p)
          /\ (cleanup_task[p].state = "pending" /\ cleanup_task'[p].state = "pending") =>
                cleanup_task'[p] = cleanup_task[p]]_vars

\* a process whose cleanup task is asleep since an earlier instant admits a request
C40_Witness ==
    /\ lastCall.kind = "public" /\ lastCall.status = 200
    /\ cleanup_task[lastCall.proc].state = "pending"
    /\ cleanup_task[lastCall.proc].wake < now + BUCKET_CLEANUP_FREQ
    /\ \E p \in Procs : cleanup_task[p].state = "pending" /\ cleanup_task[p].wake > BUCKET_CLEANUP_FREQ


\* the latest operation is a get_symbol_from_name of a name for which a fuzzy
\* hit is on record whose entry has not run out
AskedAgain ==
    /\ lastOp.op = "get_symbol"
    /\ lastOp.found # NoPin
    /\ now - lastOp.found.time < CACHE_TTL

\* the latest operation is a get_symbol_from_name answered by the index
FuzzyHit == lastOp.op = "get_symbol" /\ cache # lastOp.before

\* a fuzzy hit writes the entry of the name it was asked and nothing else
FuzzyHitWritesEntry ==
    FuzzyHit =>
       LET q == Strip(Lower(lastOp.arg)) IN
       /\ q \in DOMAIN cache.name_results
       /\ Len(cache.name_results[q]) = 1
       /\ cache.name_results[q][1].symbol = lastOp.value
       /\ cache.expires.name_results[q] = now + CACHE_TTL
       /\ cache.bk_tree = lastOp.before.bk_tree
       /\ cache.description_to_symbol = lastOp.before.description_to_symbol

\* C34 as stated: every get_symbol_from_name of the name within the TTL of the
\* entry of a fuzzy hit returns the symbol of that hit
C34_FuzzyHitIsKept ==
    /\ FuzzyHitWritesEntry
    /\ AskedAgain => lastOp.value = lastOp.found.symbol

\* C34: a fuzzy hit of get_symbol_from_name(q) writes the entry of normalized q
\* and leaves the index and description_to_symbol as they were; while that
\* entry has not run out and neither clear_cache nor a set_name_to_symbols of q
\* has followed, every get_symbol_from_name(q) returns the symbol of the hit from
\* the entry, whatever descriptions were added to the index in between
C34_FuzzyHitIsKeptUntilOverwritten ==
    /\ FuzzyHitWritesEntry
    /\ (AskedAgain /\ ~lastOp.found.broken) =>
          /\ lastOp.value = lastOp.found.symbol
          /\ cache = lastOp.before

\* a name resolved by the index to one symbol is asked again after a
\* description at distance 0 with another symbol has been added
C34_Witness ==
    /\ AskedAgain /\ ~lastOp.found.broken
    /\ \E d \in cache.bk_tree :
          /\ d = Strip(Lower(lastOp.arg))
          /\ cache.description_to_symbol[d] # lastOp.found.symbol
          /\ lastOp.value # cache.description_to_symbol[d]


\* C39: whatever the order in which company_cache and test_cache write
\* name-to-candidates entries to the store, the blob of the reverse index holds
\* every description with its symbol that either of them has written
C39_BlobHoldsEveryPair ==
    \A d \in DOMAIN lastOp.written :
       /\ cache.blob.present
       /\ d \in DOMAIN cache.blob.data
       /\ cache.blob.data[d] = lastOp.written[d]
====
